---- MODULE Spec2Model ----
(***************************************************************************)
(* Model of the PlantUML / term-CSV comparison scripts.                    *)
(*                                                                         *)
(*   scripts/compare_plantuml_models.py   normalize_identifier,            *)
(*                                        parse_plantuml_file,             *)
(*                                        calculate_metrics, compare_models*)
(*   scripts/compare_terms_csv.py         normalize_term, calculate_metrics*)
(*                                        extract_terms_from_csv,          *)
(*                                        extract_terms_with_original,     *)
(*                                        compare_csv_files                *)
(*   scripts/generate_terms_comparison_table.py                            *)
(*                                        compute_mean_metrics,            *)
(*                                        generate_markdown_table          *)
(*                                                                         *)
(* Python values are represented as follows.                               *)
(*   str     a sequence of characters; a character is a one-element        *)
(*           TLA+ string, non-ASCII code points are written "U+xxxx".      *)
(*   float   an exact fraction <<numerator, denominator>> in lowest terms; *)
(*           every float the scripts compute is the correctly rounded      *)
(*           image of such a fraction of small integers.                   *)
(*   set     a set;  tuple  a sequence;  dict  a function.                 *)
(***************************************************************************)
EXTENDS Integers, Sequences, FiniteSets, TLC

VARIABLES
    mref,       \* SpecMetrics: the reference set handed to calculate_metrics
    meval,      \* SpecMetrics: the evaluated set handed to calculate_metrics
    mres,       \* SpecMetrics: call label -> MetricResult of the calls made so far
    nraw,       \* SpecNormalize: the raw identifier
    nvariant,   \* SpecNormalize: a respelling of nraw (case, blanks, underscores, punctuation)
    nkeys,      \* SpecNormalize: call label -> canonical key of the calls made so far
    doc,        \* SpecParse: the PlantUML file, by its declarations and relationship lines
    twin,       \* SpecParse: a second file, a rewriting of doc (or doc itself)
    rewrite,    \* SpecParse: the rewriting that made twin from doc
    models,     \* SpecParse: "doc" / "twin" -> ModelElements parsed from that file
    reference_path,  \* SpecCompare: the reference file
    model_paths,     \* SpecCompare: the candidate files, in input order
    reference_model, \* SpecCompare: compare_models' local 'reference'
    results,         \* SpecCompare: compare_models' local 'results'
    pc,              \* SpecCompare: "parse", "compare" (in the loop), "return"
    reference_csv,   \* SpecTerms: the reference term file
    model_csv,       \* SpecTerms: the candidate term file
    csv_out,         \* SpecTerms: call label -> what the call returned or raised
    data_dir,        \* SpecTable: the files under data/: the baseline and the run directories
    table            \* SpecTable: what generate_markdown_table printed and returned

compareVars == <<reference_path, model_paths, reference_model, results, pc>>
parseVars == <<doc, twin, rewrite, models>>
termsVars == <<reference_csv, model_csv, csv_out>>
tableVars == <<data_dir, table>>
vars == <<mref, meval, mres, nraw, nvariant, nkeys, doc, twin, rewrite, models,
          reference_path, model_paths, reference_model, results, pc,
          reference_csv, model_csv, csv_out, data_dir, table>>

(***************************************************************************)
(* Bounds.                                                                 *)
(***************************************************************************)
MaxElems == 3       \* size of the universe the metric sets are drawn from
MaxLen == 3         \* longest raw identifier handed to the normalizer
MaxNames == 2       \* number of distinct entity names in the files
MaxBody == 2        \* most lines in the body of a declaration
MaxCandidates == 2  \* most candidate files handed to compare_models
MaxRows == 2        \* most data rows of a term file
MaxRuns == 3        \* most run directories under data/llm-mas

(***************************************************************************)
(* Generic helpers.                                                        *)
(***************************************************************************)
RECURSIVE GCD(_, _)
GCD(a, b) == IF b = 0 THEN a ELSE GCD(b, a % b)

RECURSIVE Flatten(_)
Flatten(ss) == IF ss = <<>> THEN <<>> ELSE Head(ss) \o Flatten(Tail(ss))

Range(f) == {f[x] : x \in DOMAIN f}

\* All sequences over S of length at most n.
SeqsUpTo(S, n) == UNION {[1..k -> S] : k \in 0..n}

(***************************************************************************)
(* Floats as exact fractions.                                              *)
(***************************************************************************)
\* A division by zero raises ZeroDivisionError: the value is Raised, and an
\* operation on Raised is Raised.
Raised == <<1, 0>>
Frac(n, d) == IF d = 0 THEN Raised ELSE LET g == GCD(n, d) IN <<n \div g, d \div g>>
Zero == <<0, 1>>
One == <<1, 1>>
FAdd(x, y) == Frac(x[1] * y[2] + y[1] * x[2], x[2] * y[2])
Two == <<2, 1>>
FMul(x, y) == Frac(x[1] * y[1], x[2] * y[2])
FDiv(x, y) == IF x[2] = 0 THEN Raised ELSE Frac(x[1] * y[2], x[2] * y[1])
FPos(x) == x[1] > 0

(***************************************************************************)
(* Faulty variants of calculate_metrics, used to show that the properties  *)
(* below depend on it.                                                     *)
(***************************************************************************)
MetricsOf(tp, fp, fn, precision, recall) ==
    LET f1_score == IF FPos(FAdd(precision, recall))
                    THEN FDiv(FMul(Two, FMul(precision, recall)), FAdd(precision, recall))
                    ELSE Zero
    IN [precision |-> precision, recall |-> recall, f1_score |-> f1_score,
        true_positives |-> tp, false_positives |-> fp, false_negatives |-> fn]

\* false positives and false negatives taken from the wrong differences
calculate_metrics_fp_fn_exchanged(reference, evaluated) ==
    LET tp == Cardinality(reference \cap evaluated)
        fp == Cardinality(reference \ evaluated)
        fn == Cardinality(evaluated \ reference)
    IN MetricsOf(tp, fp, fn, IF (tp + fp) > 0 THEN Frac(tp, tp + fp) ELSE Zero,
                 IF (tp + fn) > 0 THEN Frac(tp, tp + fn) ELSE Zero)

\* the zero-denominator guards left out
calculate_metrics_unguarded(reference, evaluated) ==
    LET tp == Cardinality(reference \cap evaluated)
        fp == Cardinality(evaluated \ reference)
        fn == Cardinality(reference \ evaluated)
        precision == Frac(tp, tp + fp)
        recall == Frac(tp, tp + fn)
    IN [precision |-> precision, recall |-> recall,
        f1_score |-> FDiv(FMul(Two, FMul(precision, recall)), FAdd(precision, recall)),
        true_positives |-> tp, false_positives |-> fp, false_negatives |-> fn]

\* the harmonic mean without its factor 2
calculate_metrics_half_f1(reference, evaluated) ==
    LET tp == Cardinality(reference \cap evaluated)
        fp == Cardinality(evaluated \ reference)
        fn == Cardinality(reference \ evaluated)
        precision == IF (tp + fp) > 0 THEN Frac(tp, tp + fp) ELSE Zero
        recall == IF (tp + fn) > 0 THEN Frac(tp, tp + fn) ELSE Zero
    IN [precision |-> precision, recall |-> recall,
        f1_score |-> IF FPos(FAdd(precision, recall))
                     THEN FDiv(FMul(precision, recall), FAdd(precision, recall))
                     ELSE Zero,
        true_positives |-> tp, false_positives |-> fp, false_negatives |-> fn]

\* recall divided by the denominator of precision
calculate_metrics_recall_over_fp(reference, evaluated) ==
    LET tp == Cardinality(reference \cap evaluated)
        fp == Cardinality(evaluated \ reference)
        fn == Cardinality(reference \ evaluated)
    IN MetricsOf(tp, fp, fn, IF (tp + fp) > 0 THEN Frac(tp, tp + fp) ELSE Zero,
                 IF (tp + fp) > 0 THEN Frac(tp, tp + fp) ELSE Zero)

(***************************************************************************)
(* compare_plantuml_models.py: calculate_metrics                           *)
(***************************************************************************)
calculate_metrics(reference, evaluated) ==
    LET tp == Cardinality(reference \cap evaluated)
        fp == Cardinality(evaluated \ reference)
        fn == Cardinality(reference \ evaluated)
        precision == IF (tp + fp) > 0 THEN Frac(tp, tp + fp) ELSE Zero
        recall == IF (tp + fn) > 0 THEN Frac(tp, tp + fn) ELSE Zero
        f1_score == IF FPos(FAdd(precision, recall))
                    THEN FDiv(FMul(Two, FMul(precision, recall)),
                              FAdd(precision, recall))
                    ELSE Zero
    IN [precision |-> precision, recall |-> recall, f1_score |-> f1_score,
        true_positives |-> tp, false_positives |-> fp, false_negatives |-> fn]

(***************************************************************************)
(* compare_terms_csv.py: calculate_metrics.  A dict argument that is None  *)
(* or empty is the empty function: both are falsy at line 174.             *)
(***************************************************************************)
DictGet(d, k, default) == IF k \in DOMAIN d THEN d[k] ELSE default

terms_calculate_metrics(reference, evaluated, reference_original, evaluated_original) ==
    LET tp_normalized == reference \cap evaluated
        fp_normalized == evaluated \ reference
        fn_normalized == reference \ evaluated
        mapped == DOMAIN reference_original # {} /\ DOMAIN evaluated_original # {}
        tp_terms == IF mapped THEN {DictGet(evaluated_original, t, t) : t \in tp_normalized}
                    ELSE tp_normalized
        fp_terms == IF mapped THEN {DictGet(evaluated_original, t, t) : t \in fp_normalized}
                    ELSE fp_normalized
        fn_terms == IF mapped THEN {DictGet(reference_original, t, t) : t \in fn_normalized}
                    ELSE fn_normalized
        tp == Cardinality(tp_normalized)
        fp == Cardinality(fp_normalized)
        fn == Cardinality(fn_normalized)
        precision == IF (tp + fp) > 0 THEN Frac(tp, tp + fp) ELSE Zero
        recall == IF (tp + fn) > 0 THEN Frac(tp, tp + fn) ELSE Zero
        f1_score == IF FPos(FAdd(precision, recall))
                    THEN FDiv(FMul(Two, FMul(precision, recall)),
                              FAdd(precision, recall))
                    ELSE Zero
    IN [precision |-> precision, recall |-> recall, f1_score |-> f1_score,
        true_positives |-> tp, false_positives |-> fp, false_negatives |-> fn,
        tp_terms |-> tp_terms, fp_terms |-> fp_terms, fn_terms |-> fn_terms]

(***************************************************************************)
(* Characters.  str.isspace and the regex class \s agree on every          *)
(* character; \w is str.isalnum or "_".  U+0130 is LATIN CAPITAL LETTER I  *)
(* WITH DOT ABOVE, the one character whose str.lower() is two characters:  *)
(* "i" followed by U+0307 COMBINING DOT ABOVE, which is a mark, not \w.     *)
(***************************************************************************)
UpperLetters == <<"A", "B", "C", "D", "E", "F", "G", "H", "I", "J", "K", "L", "M",
                  "N", "O", "P", "Q", "R", "S", "T", "U", "V", "W", "X", "Y", "Z">>
LowerLetters == <<"a", "b", "c", "d", "e", "f", "g", "h", "i", "j", "k", "l", "m",
                  "n", "o", "p", "q", "r", "s", "t", "u", "v", "w", "x", "y", "z">>
Digits == {"0", "1", "2", "3", "4", "5", "6", "7", "8", "9"}
Letters == Range(UpperLetters) \cup Range(LowerLetters) \cup {"U+0130"}

IsSpace(c) == c \in {" ", "\t", "\n", "\r"}
IsAlnum(c) == c \in Letters \cup Digits
IsWord(c) == IsAlnum(c) \/ c = "_"

\* str.lower() of one character.
LowerChar(c) ==
    IF c = "U+0130" THEN <<"i", "U+0307">>
    ELSE IF \E i \in DOMAIN UpperLetters : UpperLetters[i] = c
         THEN <<LowerLetters[CHOOSE i \in DOMAIN UpperLetters : UpperLetters[i] = c]>>
         ELSE <<c>>

\* str.lower(): the sigma rule aside (no sigma in the alphabet), character by character.
Lower(s) == Flatten([i \in DOMAIN s |-> LowerChar(s[i])])

\* The other case of a letter (Unicode simple case mapping).
CasePartner(c) ==
    IF c = "U+0130" THEN "i"
    ELSE IF \E i \in DOMAIN UpperLetters : UpperLetters[i] = c
         THEN LowerLetters[CHOOSE i \in DOMAIN UpperLetters : UpperLetters[i] = c]
         ELSE IF \E i \in DOMAIN LowerLetters : LowerLetters[i] = c
              THEN UpperLetters[CHOOSE i \in DOMAIN LowerLetters : LowerLetters[i] = c]
              ELSE c

\* str.strip()
Strip(s) ==
    LET solid == {i \in DOMAIN s : ~IsSpace(s[i])}
    IN IF solid = {} THEN <<>>
       ELSE SubSeq(s, CHOOSE i \in solid : \A j \in solid : i <= j,
                      CHOOSE i \in solid : \A j \in solid : i >= j)

\* The characters kept by re.sub of a one-character class by '' and by
\* str.replace('_', '').
IsWordOrSpace(c) == IsWord(c) \/ IsSpace(c)
NotSpace(c) == ~IsSpace(c)
NotUnderscore(c) == c # "_"

(***************************************************************************)
(* compare_plantuml_models.py: normalize_identifier                        *)
(***************************************************************************)
normalize_identifier(identifier) ==
    IF identifier = <<>> THEN <<>>
    ELSE LET stripped == Strip(identifier)
             cleaned == SelectSeq(stripped, IsWordOrSpace)
             lowered == Lower(cleaned)
             joined == SelectSeq(lowered, NotSpace)
         IN SelectSeq(joined, NotUnderscore)

(***************************************************************************)
(* compare_terms_csv.py: normalize_term                                    *)
(***************************************************************************)
\* normalize_term with line 72 left out: underscores stay in the key
normalize_term_keeping_underscores(term) ==
    IF term = <<>> THEN <<>>
    ELSE LET stripped == Strip(term)
             cleaned == SelectSeq(stripped, IsWordOrSpace)
             lowered == Lower(cleaned)
         IN SelectSeq(lowered, NotSpace)

normalize_term(term) ==
    IF term = <<>> THEN <<>>
    ELSE LET stripped == Strip(term)
             cleaned == SelectSeq(stripped, IsWordOrSpace)
             lowered == Lower(cleaned)
             joined == SelectSeq(lowered, NotSpace)
         IN SelectSeq(joined, NotUnderscore)

(***************************************************************************)
(* The regular expressions of module re, as far as the scripts use them.   *)
(* A pattern is a tree of nodes; Match is the backtracking matcher of re:  *)
(* it tries the alternatives in priority order (greedy repetitions longest *)
(* first, lazy ones shortest first, alternations left to right) against    *)
(* the nodes still to be matched, and returns the first way that matches   *)
(* all of them.  Positions count the characters consumed, from 0.  A       *)
(* group that took no part in the match holds the empty string, which the  *)
(* scripts treat like None (they only test groups for truth).              *)
(*   [t |-> "ch", k, cs]      one character of a class (see ChOk)          *)
(*   [t |-> "rep", c, min, greedy]  c* c+ c*? : a class repeated           *)
(*   [t |-> "lit", s, ic]     a literal, ic under re.IGNORECASE            *)
(*   [t |-> "cat", rs]        a sequence,  [t |-> "alt", rs] alternatives  *)
(*   [t |-> "opt", r]         (?:r)?  and  r?                              *)
(*   [t |-> "grp", n, r]      capture group number n                       *)
(*   [t |-> "eol", ml]        $, ml under re.MULTILINE                     *)
(*   [t |-> "nb", cs], [t |-> "na", cs]   (?<![cs]) and (?![cs])           *)
(***************************************************************************)
ChOk(r, c) ==
    CASE r.k = "in" -> c \in r.cs
      [] r.k = "notin" -> c \notin r.cs
      [] r.k = "w" -> IsWord(c)
      [] r.k = "s" -> IsSpace(c)
      [] r.k = "wdot" -> IsWord(c) \/ c = "."
      [] r.k = "dot" -> c # "\n"
      [] r.k = "any" -> TRUE

Ch(k) == [t |-> "ch", k |-> k, cs |-> {}]
In(cs) == [t |-> "ch", k |-> "in", cs |-> cs]
NotIn(cs) == [t |-> "ch", k |-> "notin", cs |-> cs]
Star(c) == [t |-> "rep", c |-> c, min |-> 0, greedy |-> TRUE]
Plus(c) == [t |-> "rep", c |-> c, min |-> 1, greedy |-> TRUE]
LazyStar(c) == [t |-> "rep", c |-> c, min |-> 0, greedy |-> FALSE]
Lit(s) == [t |-> "lit", s |-> s, ic |-> FALSE]
LitI(s) == [t |-> "lit", s |-> s, ic |-> TRUE]
Cat(rs) == [t |-> "cat", rs |-> rs]
Alt(rs) == [t |-> "alt", rs |-> rs]
Opt(r) == [t |-> "opt", r |-> r]
Grp(n, r) == [t |-> "grp", n |-> n, r |-> r]
Eol(ml) == [t |-> "eol", ml |-> ml]
NotAfterAny(cs) == [t |-> "nb", cs |-> cs]
NotBeforeAny(cs) == [t |-> "na", cs |-> cs]

\* Equality of a subject character and a pattern character under re.IGNORECASE.
CaseEq(c, l) == c = l \/ CasePartner(c) = l \/ CasePartner(l) = c \/ CasePartner(c) = CasePartner(l)

LitAt(r, s, i) ==
    /\ i + Len(r.s) <= Len(s)
    /\ \A j \in DOMAIN r.s : IF r.ic THEN CaseEq(s[i + j], r.s[j]) ELSE s[i + j] = r.s[j]

\* The number of consecutive characters of class c from position i.
RECURSIVE Run(_, _, _)
Run(c, s, i) == IF i < Len(s) /\ ChOk(c, s[i + 1]) THEN 1 + Run(c, s, i + 1) ELSE 0

Fail == [ok |-> FALSE, end |-> 0, g |-> <<>>]

RECURSIVE Match(_, _, _, _)
RECURSIVE TryRep(_, _, _, _, _, _, _)
RECURSIVE TryAlt(_, _, _, _, _, _)

\* todo: the nodes still to be matched, in order; i: the position; g: the groups.
Match(todo, s, i, g) ==
    IF todo = <<>> THEN [ok |-> TRUE, end |-> i, g |-> g]
    ELSE LET r == Head(todo)
             rest == Tail(todo)
         IN CASE r.t = "ch" ->
                    IF i < Len(s) /\ ChOk(r, s[i + 1]) THEN Match(rest, s, i + 1, g) ELSE Fail
              [] r.t = "rep" ->
                    LET n == Run(r.c, s, i)
                    IN IF n < r.min THEN Fail
                       ELSE TryRep(r, rest, s, i, g, IF r.greedy THEN n ELSE r.min, n)
              [] r.t = "lit" ->
                    IF LitAt(r, s, i) THEN Match(rest, s, i + Len(r.s), g) ELSE Fail
              [] r.t = "cat" -> Match(r.rs \o rest, s, i, g)
              [] r.t = "alt" -> TryAlt(r.rs, 1, rest, s, i, g)
              [] r.t = "opt" ->
                    LET m == Match(<<r.r>> \o rest, s, i, g)
                    IN IF m.ok THEN m ELSE Match(rest, s, i, g)
              [] r.t = "grp" ->
                    Match(<<r.r, [t |-> "end", n |-> r.n, from |-> i]>> \o rest, s, i, g)
              [] r.t = "end" ->
                    Match(rest, s, i, [g EXCEPT ![r.n] = SubSeq(s, r.from + 1, i)])
              [] r.t = "eol" ->
                    IF \/ i = Len(s)
                       \/ (r.ml /\ s[i + 1] = "\n")
                       \/ (i = Len(s) - 1 /\ s[i + 1] = "\n")
                    THEN Match(rest, s, i, g) ELSE Fail
              [] r.t = "nb" ->
                    IF i = 0 \/ s[i] \notin r.cs THEN Match(rest, s, i, g) ELSE Fail
              [] r.t = "na" ->
                    IF i = Len(s) \/ s[i + 1] \notin r.cs THEN Match(rest, s, i, g) ELSE Fail

\* The repetition r taken k times (of at most n), then fewer (greedy) or more (lazy).
TryRep(r, rest, s, i, g, k, n) ==
    IF k < r.min \/ k > n THEN Fail
    ELSE LET m == Match(rest, s, i + k, g)
         IN IF m.ok THEN m
            ELSE TryRep(r, rest, s, i, g, IF r.greedy THEN k - 1 ELSE k + 1, n)

TryAlt(rs, k, rest, s, i, g) ==
    IF k > Len(rs) THEN Fail
    ELSE LET m == Match(<<rs[k]>> \o rest, s, i, g)
         IN IF m.ok THEN m ELSE TryAlt(rs, k + 1, rest, s, i, g)

NoGroups(ng) == [n \in 1..ng |-> <<>>]

\* re.match(p, s): p at the start of s.  ng: the number of groups of p.
ReMatch(p, ng, s) == Match(<<p>>, s, 0, NoGroups(ng))

\* re.finditer(p, s): the non-overlapping matches, leftmost first.  at[q] is
\* the match of p at position q; the scan resumes where a match ended.
RECURSIVE Scan(_, _, _)
Scan(at, n, pos) ==
    LET starts == {q \in pos..n : at[q].ok}
    IN IF starts = {} THEN <<>>
       ELSE LET q == CHOOSE x \in starts : \A y \in starts : x <= y
            IN <<[start |-> q, end |-> at[q].end, g |-> at[q].g]>>
               \o Scan(at, n, IF at[q].end > q THEN at[q].end ELSE q + 1)
FindIter(p, ng, s) ==
    Scan([q \in 0..Len(s) |-> Match(<<p>>, s, q, NoGroups(ng))], Len(s), 0)

\* re.sub(p, '', s): s without the matches of p.
RECURSIVE CutOut(_, _, _)
CutOut(ms, s, pos) ==
    IF ms = <<>> THEN SubSeq(s, pos + 1, Len(s))
    ELSE SubSeq(s, pos + 1, Head(ms).start) \o CutOut(Tail(ms), s, Head(ms).end)
ReSubEmpty(p, s) == CutOut(FindIter(p, 0, s), s, 0)

\* str.split(sep) for a one-character sep: the pieces between the separators.
Split(s, sep) ==
    LET at == {i \in DOMAIN s : s[i] = sep}
        nth(k) == IF k = 0 THEN 0
                  ELSE IF k > Cardinality(at) THEN Len(s) + 1
                  ELSE CHOOSE i \in at : Cardinality({j \in at : j < i}) = k - 1
    IN [k \in 1..(Cardinality(at) + 1) |-> SubSeq(s, nth(k - 1) + 1, nth(k) - 1)]

(***************************************************************************)
(* The words of the scripts, as character sequences.                       *)
(***************************************************************************)
KW_CLASS == <<"c", "l", "a", "s", "s">>
KW_INTERFACE == <<"i", "n", "t", "e", "r", "f", "a", "c", "e">>
KW_ENUM == <<"e", "n", "u", "m">>
ABSTRACT == <<"a", "b", "s", "t", "r", "a", "c", "t">>
STATIC == <<"s", "t", "a", "t", "i", "c">>
FINAL == <<"f", "i", "n", "a", "l">>
CONST == <<"c", "o", "n", "s", "t">>
READONLY == <<"r", "e", "a", "d", "o", "n", "l", "y">>
VIRTUAL == <<"v", "i", "r", "t", "u", "a", "l">>
OVERRIDE == <<"o", "v", "e", "r", "r", "i", "d", "e">>
INHERITANCE == <<"i", "n", "h", "e", "r", "i", "t", "a", "n", "c", "e">>
REALIZATION == <<"r", "e", "a", "l", "i", "z", "a", "t", "i", "o", "n">>
COMPOSITION == <<"c", "o", "m", "p", "o", "s", "i", "t", "i", "o", "n">>
AGGREGATION == <<"a", "g", "g", "r", "e", "g", "a", "t", "i", "o", "n">>
ASSOCIATION == <<"a", "s", "s", "o", "c", "i", "a", "t", "i", "o", "n">>
DEPENDENCY == <<"d", "e", "p", "e", "n", "d", "e", "n", "c", "y">>

(***************************************************************************)
(* compare_plantuml_models.py: parse_plantuml_file.  The argument is the   *)
(* text of the file.                                                       *)
(***************************************************************************)
ModifierKeywords ==
    {STATIC, ABSTRACT, FINAL, CONST, READONLY, VIRTUAL, OVERRIDE}

\* line 88: '.*?$ under re.MULTILINE;  line 89: /\*.*?\*/ under re.DOTALL
LineCommentPattern == Cat(<<Lit(<<"'">>), LazyStar(Ch("dot")), Eol(TRUE)>>)
BlockCommentPattern == Cat(<<Lit(<<"/", "*">>), LazyStar(Ch("any")), Lit(<<"*", "/">>)>>)

\* "([^"]+)"|([\w.]+) with its groups numbered q and b
NamePattern(q, b) ==
    Alt(<<Cat(<<Lit(<<"\"">>), Grp(q, Plus(NotIn({"\""}))), Lit(<<"\"">>)>>),
          Grp(b, Plus(Ch("wdot")))>>)

\* (?:\s+as\s+(\w+))?
AliasPattern ==
    Opt(Cat(<<Plus(Ch("s")), LitI(<<"a", "s">>), Plus(Ch("s")), Grp(3, Plus(Ch("w")))>>))

\* class_pattern without the keyword interface
class_pattern_without_interface ==
    Cat(<<Alt(<<LitI(KW_CLASS),
                Cat(<<LitI(ABSTRACT), Plus(Ch("s")), LitI(KW_CLASS)>>),
                LitI(KW_ENUM)>>),
          Plus(Ch("s")), NamePattern(1, 2), AliasPattern>>)

\* line 97, matched under re.IGNORECASE
class_pattern ==
    Cat(<<Alt(<<LitI(KW_CLASS),
                Cat(<<LitI(ABSTRACT), Plus(Ch("s")), LitI(KW_CLASS)>>),
                LitI(KW_INTERFACE),
                LitI(KW_ENUM)>>),
          Plus(Ch("s")), NamePattern(1, 2), AliasPattern>>)

\* lines 119, 120, 122
CARD == Opt(Cat(<<Star(Ch("s")), Lit(<<"\"">>), Star(NotIn({"\""})), Lit(<<"\"">>)>>))
LABEL == Opt(Cat(<<Star(Ch("s")), Lit(<<":">>), Star(Ch("s")), Plus(NotIn({"\n"}))>>))

\* rf'{CLASS}{CARD}\s*(<arrow>){CARD}\s*{CLASS}{LABEL}'
RelationshipPattern(arrow) ==
    Cat(<<NamePattern(1, 2), CARD, Star(Ch("s")), Grp(3, arrow), CARD, Star(Ch("s")),
          NamePattern(4, 5), LABEL>>)

\* (?<![<|*o])--(?![>|*o])
PlainLine ==
    Cat(<<NotAfterAny({"<", "|", "*", "o"}), Lit(<<"-", "-">>),
          NotBeforeAny({">", "|", "*", "o"})>>)

\* lines 127-141: (regex, relationship_type, is_reverse)
relationship_patterns == <<
    [arrow |-> Lit(<<"<", "|", "-", "-">>), rel_type |-> INHERITANCE, is_reverse |-> TRUE],
    [arrow |-> Lit(<<"-", "-", "|", ">">>), rel_type |-> INHERITANCE, is_reverse |-> FALSE],
    [arrow |-> Lit(<<"<", "|", ".", ".">>), rel_type |-> REALIZATION, is_reverse |-> TRUE],
    [arrow |-> Lit(<<".", ".", "|", ">">>), rel_type |-> REALIZATION, is_reverse |-> FALSE],
    [arrow |-> Lit(<<"*", "-", "-">>), rel_type |-> COMPOSITION, is_reverse |-> TRUE],
    [arrow |-> Lit(<<"-", "-", "*">>), rel_type |-> COMPOSITION, is_reverse |-> FALSE],
    [arrow |-> Lit(<<"o", "-", "-">>), rel_type |-> AGGREGATION, is_reverse |-> TRUE],
    [arrow |-> Lit(<<"-", "-", "o">>), rel_type |-> AGGREGATION, is_reverse |-> FALSE],
    [arrow |-> Lit(<<"-", "-", ">">>), rel_type |-> ASSOCIATION, is_reverse |-> FALSE],
    [arrow |-> Lit(<<"<", "-", "-">>), rel_type |-> ASSOCIATION, is_reverse |-> TRUE],
    [arrow |-> PlainLine, rel_type |-> ASSOCIATION, is_reverse |-> FALSE],
    [arrow |-> Lit(<<".", ".", ">">>), rel_type |-> DEPENDENCY, is_reverse |-> FALSE],
    [arrow |-> Lit(<<"<", ".", ".">>), rel_type |-> DEPENDENCY, is_reverse |-> TRUE] >>

\* line 172, matched under re.IGNORECASE | re.DOTALL
class_def_pattern ==
    Cat(<<Alt(<<LitI(KW_CLASS),
                Cat(<<LitI(ABSTRACT), Plus(Ch("s")), LitI(KW_CLASS)>>),
                LitI(KW_INTERFACE)>>),
          Plus(Ch("s")), NamePattern(1, 2), AliasPattern,
          Star(Ch("s")), Lit(<<"{">>), Grp(4, Star(NotIn({"}"}))), Lit(<<"}">>)>>)

\* lines 198, 207, 215, 219, 226
InlineCommentPattern == Cat(<<Lit(<<"'">>), Star(Ch("dot")), Eol(FALSE)>>)
StereotypeLinePattern == Cat(<<Lit(<<"{">>), Star(Ch("dot")), Lit(<<"}">>), Eol(FALSE)>>)
SeparatorLinePattern == Cat(<<Plus(In({"-", "="})), Eol(FALSE)>>)
ModifierPrefixPattern == Cat(<<Lit(<<"{">>), Plus(NotIn({"}"})), Lit(<<"}">>), Star(Ch("s"))>>)
AttributePattern ==
    Cat(<<Opt(In({"+", "-", "#", "~"})), Star(Ch("s")), Grp(1, Plus(Ch("w"))), Star(Ch("s")),
          Opt(Cat(<<Lit(<<":">>), Star(Ch("s")), Plus(Ch("dot"))>>)),
          Opt(Cat(<<Star(Ch("s")), Lit(<<"=">>), Star(Ch("s")), Plus(Ch("dot"))>>)),
          Eol(FALSE)>>)

\* name.split('.')[-1] if '.' in name else name
\* the whole qualified name in place of its last segment
LastSegment_whole_name(name) == name

LastSegment(name) == LET parts == Split(name, ".") IN parts[Len(parts)]

\* quoted if quoted else simple
Either(quoted, simple) == IF quoted # <<>> THEN quoted ELSE simple

\* lines 99-113, without the test of line 112
ExtractClasses_keeping_empty(content) ==
    LET ms == FindIter(class_pattern, 3, content)
        key(m) == normalize_identifier(LastSegment(Either(m.g[1], m.g[2])))
    IN {key(ms[i]) : i \in DOMAIN ms}

\* lines 99-113
ExtractClasses(content) ==
    LET ms == FindIter(class_pattern, 3, content)
        key(m) == normalize_identifier(LastSegment(Either(m.g[1], m.g[2])))
    IN {key(ms[i]) : i \in DOMAIN ms} \ {<<>>}

\* lines 159-163, with the two endpoints as an unordered pair
SourceTarget_unordered(left, right, is_reverse) ==
    CHOOSE st \in {<<left, right>>, <<right, left>>} : TRUE

\* lines 159-163, without the swap of a reversed arrow
SourceTarget_raw_order(left, right, is_reverse) == <<left, right>>

\* lines 159-163
SourceTarget(left, right, is_reverse) ==
    IF is_reverse THEN <<right, left>> ELSE <<left, right>>

\* lines 143-167
ExtractRelationships(content) ==
    UNION {
        LET pat == relationship_patterns[k]
            ms == FindIter(RelationshipPattern(pat.arrow), 5, content)
            left(m) == normalize_identifier(LastSegment(Either(m.g[1], m.g[2])))
            right(m) == normalize_identifier(LastSegment(Either(m.g[4], m.g[5])))
        IN {LET st == SourceTarget(left(ms[i]), right(ms[i]), pat.is_reverse)
            IN <<st[1], normalize_identifier(pat.rel_type), st[2]>>
            : i \in {j \in DOMAIN ms : left(ms[j]) # <<>> /\ right(ms[j]) # <<>>}}
        : k \in DOMAIN relationship_patterns}

\* lines 192-234: the normalized attribute name a body line yields, '' when
\* the line is skipped.
LineAttribute(rawline) ==
    LET line1 == Strip(rawline)
        line2 == Strip(ReSubEmpty(InlineCommentPattern, line1))
        line3 == Strip(ReSubEmpty(ModifierPrefixPattern, line2))
        attr_match == ReMatch(AttributePattern, 1, line3)
        attr_name == Strip(attr_match.g[1])
    IN IF line1 = <<>> THEN <<>>
       ELSE IF line2 = <<>> THEN <<>>
       ELSE IF \E i \in DOMAIN line2 : line2[i] = "(" THEN <<>>
       ELSE IF ReMatch(StereotypeLinePattern, 0, line2).ok THEN <<>>
       ELSE IF line2[1] = "@" THEN <<>>
       ELSE IF ReMatch(SeparatorLinePattern, 0, line2).ok THEN <<>>
       ELSE IF line3 = <<>> THEN <<>>
       ELSE IF ~attr_match.ok THEN <<>>
       ELSE IF Lower(attr_name) \in ModifierKeywords THEN <<>>
       ELSE normalize_identifier(attr_name)

\* lines 173-236, with the declared name as owner also when an alias is given
ExtractAttributes_declared_owner(content) ==
    LET ms == FindIter(class_def_pattern, 4, content)
        class_name(m) == normalize_identifier(LastSegment(Either(m.g[1], m.g[2])))
        lines(m) == Split(m.g[4], "\n")
    IN UNION {
        {<<class_name(ms[i]), LineAttribute(lines(ms[i])[j])>> :
            j \in {l \in DOMAIN lines(ms[i]) :
                      LineAttribute(lines(ms[i])[l]) # <<>> /\ class_name(ms[i]) # <<>>}}
        : i \in DOMAIN ms}

\* lines 173-236
ExtractAttributes(content) ==
    LET ms == FindIter(class_def_pattern, 4, content)
        raw_name(m) == IF m.g[3] # <<>> THEN m.g[3] ELSE Either(m.g[1], m.g[2])
        class_name(m) == normalize_identifier(LastSegment(raw_name(m)))
        lines(m) == Split(m.g[4], "\n")
    IN UNION {
        {<<class_name(ms[i]), LineAttribute(lines(ms[i])[j])>> :
            j \in {l \in DOMAIN lines(ms[i]) :
                      LineAttribute(lines(ms[i])[l]) # <<>> /\ class_name(ms[i]) # <<>>}}
        : i \in DOMAIN ms}

RemoveComments(content) ==
    ReSubEmpty(BlockCommentPattern, ReSubEmpty(LineCommentPattern, content))

parse_plantuml_file(text) ==
    LET content == RemoveComments(text)
    IN [classes |-> ExtractClasses(content),
        relationships |-> ExtractRelationships(content),
        attributes |-> ExtractAttributes(content)]

(***************************************************************************)
(* SpecMetrics: the two calculate_metrics functions applied to every pair  *)
(* of subsets of a small universe.  mres records the calls made:           *)
(*   "puml"     calculate_metrics(mref, meval)          (PlantUML script)  *)
(*   "swapped"  calculate_metrics(meval, mref)                             *)
(*   "terms"    calculate_metrics(mref, meval)          (term-CSV script)  *)
(*   "mapped"   the same with both original-spelling dicts passed          *)
(***************************************************************************)
Elems == 1..MaxElems
NoCalls == [l \in {} |-> {}]
Record(f, l, v) == [x \in DOMAIN f \cup {l} |-> IF x = l THEN v ELSE f[x]]

\* The original spelling a term file holds for canonical key t.
Original(t) == t + 100
Originals(S) == [t \in S |-> Original(t)]

NormalizeIdle == nraw = <<>> /\ nvariant = <<>> /\ nkeys = NoCalls
MetricsIdle == mref = {} /\ meval = {} /\ mres = NoCalls
NoFile == [decls |-> <<>>, rels |-> <<>>]
ParseIdle == doc = NoFile /\ twin = NoFile /\ rewrite = "none" /\ models = NoCalls
NoModel == [classes |-> {}, relationships |-> {}, attributes |-> {}]
NoResults == [reference_stats |-> [classes |-> 0, relationships |-> 0, attributes |-> 0],
              comparisons |-> <<>>]
CompareIdle ==
    /\ reference_path = NoFile /\ model_paths = <<>>
    /\ reference_model = NoModel /\ results = NoResults /\ pc = "idle"
NoCsv == [fieldnames |-> <<>>, rows |-> <<>>]
TermsIdle == reference_csv = NoCsv /\ model_csv = NoCsv /\ csv_out = NoCalls
NoData == [baseline |-> NoCalls, runs |-> <<>>]
TableIdle == data_dir = NoData /\ table = NoCalls

InitMetrics ==
    /\ mref \in SUBSET Elems
    /\ meval \in SUBSET Elems
    /\ mres = NoCalls
    /\ NormalizeIdle
    /\ ParseIdle
    /\ CompareIdle
    /\ TermsIdle
    /\ TableIdle

CalculateMetrics(swap) ==
    /\ (IF swap THEN "swapped" ELSE "puml") \notin DOMAIN mres
    /\ mres' = IF swap THEN Record(mres, "swapped", calculate_metrics(meval, mref))
                       ELSE Record(mres, "puml", calculate_metrics(mref, meval))
    /\ UNCHANGED <<mref, meval, nraw, nvariant, nkeys, doc, twin, rewrite, models, compareVars, termsVars>>
    /\ UNCHANGED tableVars

TermsCalculateMetrics(withOriginals) ==
    /\ (IF withOriginals THEN "mapped" ELSE "terms") \notin DOMAIN mres
    /\ mres' = IF withOriginals
               THEN Record(mres, "mapped",
                        terms_calculate_metrics(mref, meval, Originals(mref), Originals(meval)))
               ELSE Record(mres, "terms",
                        terms_calculate_metrics(mref, meval, NoCalls, NoCalls))
    /\ UNCHANGED <<mref, meval, nraw, nvariant, nkeys, doc, twin, rewrite, models, compareVars, termsVars>>
    /\ UNCHANGED tableVars

NextMetrics ==
    \/ \E swap \in BOOLEAN : CalculateMetrics(swap)
    \/ \E withOriginals \in BOOLEAN : TermsCalculateMetrics(withOriginals)

SpecMetrics == InitMetrics /\ [][NextMetrics]_vars

(***************************************************************************)
(* SpecNormalize: the two normalizers applied to every raw identifier over *)
(* a small alphabet, to their own output, and to a respelling of the raw   *)
(* identifier.  nkeys records the calls made:                              *)
(*   "key"         normalize_identifier(nraw)                              *)
(*   "again"       normalize_identifier(nkeys["key"])                      *)
(*   "term"        normalize_term(nraw)                                    *)
(*   "term_again"  normalize_term(nkeys["term"])                           *)
(*   "variant"     normalize_identifier(nvariant)                          *)
(***************************************************************************)
NormAlphabet == {"A", "a", "1", "_", " ", "-", "U+0130"}

\* Characters a respelling may insert or remove: blanks, underscores and
\* characters that are neither letters nor digits.
Ignorable == {" ", "_", "-", "U+0307"}

InsertAt(s, i, c) == SubSeq(s, 1, i) \o <<c>> \o SubSeq(s, i + 1, Len(s))
RemoveAt(s, i) == SubSeq(s, 1, i - 1) \o SubSeq(s, i + 1, Len(s))

InitNormalize ==
    /\ nraw \in SeqsUpTo(NormAlphabet, MaxLen)
    /\ nvariant = nraw
    /\ nkeys = NoCalls
    /\ MetricsIdle
    /\ ParseIdle
    /\ CompareIdle
    /\ TermsIdle
    /\ TableIdle

\* A second spelling of the same name: one letter in its other case, or one
\* ignorable character more or less.
Respell ==
    /\ nkeys = NoCalls /\ nvariant = nraw
    /\ \/ \E i \in DOMAIN nraw :
             /\ nraw[i] \in Letters
             /\ nvariant' = [nraw EXCEPT ![i] = CasePartner(nraw[i])]
       \/ \E i \in 0..Len(nraw), c \in Ignorable : nvariant' = InsertAt(nraw, i, c)
       \/ \E i \in DOMAIN nraw :
             /\ nraw[i] \in Ignorable
             /\ nvariant' = RemoveAt(nraw, i)
    /\ UNCHANGED <<nraw, nkeys, mref, meval, mres, doc, twin, rewrite, models, compareVars, termsVars>>
    /\ UNCHANGED tableVars

NormalizeIdentifier ==
    /\ \/ /\ DOMAIN nkeys = {}
          /\ nkeys' = Record(nkeys, "key", normalize_identifier(nraw))
       \/ /\ DOMAIN nkeys = {"key"}
          /\ nkeys' = Record(nkeys, "again", normalize_identifier(nkeys["key"]))
       \/ /\ DOMAIN nkeys = {"key", "again", "term", "term_again"}
          /\ nkeys' = Record(nkeys, "variant", normalize_identifier(nvariant))
    /\ UNCHANGED <<nraw, nvariant, mref, meval, mres, doc, twin, rewrite, models, compareVars, termsVars>>
    /\ UNCHANGED tableVars

NormalizeTerm ==
    /\ \/ /\ DOMAIN nkeys = {"key", "again"}
          /\ nkeys' = Record(nkeys, "term", normalize_term(nraw))
       \/ /\ DOMAIN nkeys = {"key", "again", "term"}
          /\ nkeys' = Record(nkeys, "term_again", normalize_term(nkeys["term"]))
    /\ UNCHANGED <<nraw, nvariant, mref, meval, mres, doc, twin, rewrite, models, compareVars, termsVars>>
    /\ UNCHANGED tableVars

NextNormalize == Respell \/ NormalizeIdentifier \/ NormalizeTerm

SpecNormalize == InitNormalize /\ [][NextNormalize]_vars

(***************************************************************************)
(* PlantUML files.  A file is described by its declarations and its        *)
(* relationship lines; Render gives its text, one item per line.           *)
(*   name         [q, base, quoted]: qualifier (with its dots), simple     *)
(*                name, and whether the name is written in double quotes   *)
(*   declaration  [kw, name, alias, braces, body]: keyword, name, alias    *)
(*                ('' for none), whether a {...} body follows, its lines   *)
(*   body line    [kind, text, name]: the text of the line and, for an     *)
(*                attribute line, the attribute's name                     *)
(*   relationship [left, arrow, right]: arrow numbers ArrowTokens          *)
(***************************************************************************)
NameList == <<<<"A">>, <<"B">>, <<"o">>, <<"O", "r", "d", "e", "r">>>>
Qualifier == <<"c", "o", "m", ".", "f", "o", "o", ".">>
OtherQualifier == <<"p", "k", "g", ".">>
Alias == <<"R", "e", "f">>

Bare(b) == [q |-> <<>>, base |-> b, quoted |-> FALSE]
Quoted(b) == [q |-> <<>>, base |-> b, quoted |-> TRUE]

BaseNames == {NameList[i] : i \in 1..MaxNames}
Spellings == {Bare(b) : b \in BaseNames} \cup {Quoted(b) : b \in BaseNames}

ArrowTokens == <<<<"<", "|", "-", "-">>,
                 <<"-", "-", "|", ">">>,
                 <<"<", "|", ".", ".">>,
                 <<".", ".", "|", ">">>,
                 <<"*", "-", "-">>,
                 <<"-", "-", "*">>,
                 <<"o", "-", "-">>,
                 <<"-", "-", "o">>,
                 <<"-", "-", ">">>,
                 <<"<", "-", "-">>,
                 <<"-", "-">>,
                 <<".", ".", ">">>,
                 <<"<", ".", ".">>>>

\* What each arrow token means: its relationship kind, and whether its head
\* or diamond is on the left endpoint.
ArrowKind == <<INHERITANCE, INHERITANCE, REALIZATION, REALIZATION, COMPOSITION, COMPOSITION,
               AGGREGATION, AGGREGATION, ASSOCIATION, ASSOCIATION, ASSOCIATION,
               DEPENDENCY, DEPENDENCY>>
HeadOnLeft == {1, 3, 5, 7, 10, 13}
Undirected == 11
\* The same arrow pointing the other way.
Mirrored == <<2, 1, 4, 3, 6, 5, 8, 7, 10, 9, 11, 13, 12>>

Keywords == {KW_CLASS, ABSTRACT \o <<" ">> \o KW_CLASS, KW_INTERFACE, KW_ENUM}

AttrLine(text, name) == [kind |-> "attribute", text |-> text, name |-> name]
OtherLine(kind, text) == [kind |-> kind, text |-> text, name |-> <<>>]

BodyLines == {
    AttrLine(<<"x">>, <<"x">>),
    AttrLine(<<"-", " ", "n", "a", "m", "e", ":", " ", "s", "t", "r", "i", "n", "g">>, <<"n", "a", "m", "e">>),
    AttrLine(<<"+", " ", "i", "d", " ", ":", " ", "i", "n", "t", " ", "=", " ", "3">>, <<"i", "d">>),
    OtherLine("method", <<"+", " ", "g", "e", "t", "N", "a", "m", "e", "(", ")", ":", " ", "s", "t", "r", "i", "n", "g">>),
    OtherLine("stereotype", <<"{", "a", "b", "s", "t", "r", "a", "c", "t", "}">>),
    OtherLine("annotation", <<"@", "E", "n", "t", "i", "t", "y">>),
    OtherLine("separator", <<"-", "-">>),
    OtherLine("separator", <<"=", "=">>),
    OtherLine("modifier", <<"s", "t", "a", "t", "i", "c">>),
    OtherLine("modifier", <<"F", "i", "n", "a", "l">>),
    OtherLine("prefixed", <<"{", "s", "t", "a", "t", "i", "c", "}", " ", "c", "o", "u", "n", "t", " ", ":", " ", "i", "n", "t">>) }

Bodies == SeqsUpTo(BodyLines, MaxBody)

NoBody(kw, name, alias) ==
    [kw |-> kw, name |-> name, alias |-> alias, braces |-> FALSE, body |-> <<>>]
WithBody(kw, name, alias, body) ==
    [kw |-> kw, name |-> name, alias |-> alias, braces |-> TRUE, body |-> body]

RenderName(n) ==
    IF n.quoted THEN <<"\"">> \o n.q \o n.base \o <<"\"">> ELSE n.q \o n.base

\* A relationship is written with a blank on each side of the arrow, or,
\* when it has the field tight, with none.
Gap(r) == IF "tight" \in DOMAIN r THEN <<>> ELSE <<" ">>
RenderRel(r) ==
    RenderName(r.left) \o Gap(r) \o ArrowTokens[r.arrow] \o Gap(r) \o RenderName(r.right)

RenderDecl(d) ==
    d.kw \o <<" ">> \o RenderName(d.name)
    \o (IF d.alias # <<>> THEN <<" ", "a", "s", " ">> \o d.alias ELSE <<>>)
    \o (IF d.braces
        THEN <<" ", "{", "\n">>
             \o Flatten([i \in DOMAIN d.body |-> <<" ", " ">> \o d.body[i].text \o <<"\n">>])
             \o <<"}">>
        ELSE <<>>)

RenderElements(f) ==
    Flatten([i \in DOMAIN f.decls |-> RenderDecl(f.decls[i]) \o <<"\n">>])
    \o Flatten([i \in DOMAIN f.rels |-> RenderRel(f.rels[i]) \o <<"\n">>])

\* The text of a file with a comment: the commented text c.file is written
\* after a line-comment marker, on a line of its own or at the end of the
\* last line, or in a block comment before the rest of the file.
WithoutLast(t) == IF t = <<>> THEN t ELSE SubSeq(t, 1, Len(t) - 1)
RenderComment(c, rest) ==
    LET u == WithoutLast(RenderElements(c.file))
    IN CASE c.style = "line_before" -> <<"'", " ">> \o u \o <<"\n">> \o rest
         [] c.style = "line_after" ->
                WithoutLast(rest) \o <<" ", "'", " ">> \o u \o <<"\n">>
         [] c.style = "block_before" ->
                <<"/", "*", " ">> \o u \o <<" ", "*", "/", "\n">> \o rest
         [] c.style = "block_same_line" ->
                <<"/", "*", " ">> \o u \o <<" ", "*", "/", " ">> \o rest
         [] c.style = "block_lines" ->
                <<"/", "*", "\n">> \o u \o <<"\n", "*", "/", "\n">> \o rest
         [] c.style = "block_apostrophe" ->
                <<"/", "*", " ">> \o u \o <<" ", "'", " ", "*", "/", "\n">> \o rest

Render(f) ==
    IF "comment" \in DOMAIN f THEN RenderComment(f.comment, RenderElements(f))
    ELSE RenderElements(f)

File(decls, rels) == [decls |-> decls, rels |-> rels]

\* One relationship line between two different entities, in every spelling.
RelFiles ==
    {File(<<>>, <<[left |-> t[1], arrow |-> t[2], right |-> t[3]]>>) :
        t \in {u \in Spellings \X (DOMAIN ArrowTokens) \X Spellings : u[1].base # u[3].base}}

\* One declaration, in every keyword and spelling, with or without alias.
HeaderFiles ==
    {File(<<NoBody(t[1], t[2], t[3])>>, <<>>) :
        t \in Keywords \X Spellings \X {<<>>, Alias}}
    \cup {File(<<WithBody(t[1], t[2], t[3], <<b>>)>>, <<>>) :
            t \in Keywords \X Spellings \X {<<>>, Alias},
            b \in {l \in BodyLines : l.kind = "attribute" /\ Len(l.text) = 1}}

\* One class with every body.
BodyFiles ==
    {File(<<WithBody(KW_CLASS, Bare(NameList[1]), <<>>, b)>>, <<>>) : b \in Bodies}

\* Two classes, the second with a body, and a relationship between them.
DiagramFiles ==
    {File(<<NoBody(KW_CLASS, Bare(NameList[1]), <<>>),
            WithBody(KW_CLASS, Bare(NameList[2]), <<>>, <<b>>)>>,
          <<[left |-> Bare(NameList[1]), arrow |-> a, right |-> Bare(NameList[2])]>>) :
        a \in DOMAIN ArrowTokens,
        b \in {l \in BodyLines : l.kind = "attribute" /\ Len(l.text) = 1}}

\* One relationship line written without blanks, between B and a name that
\* ends in the letter of the aggregation arrows.
Foo == <<"F", "o", "o">>
TightFiles ==
    {File(<<>>, <<[left |-> t[1], arrow |-> t[2], right |-> t[3], tight |-> TRUE]>>) :
        t \in {u \in {Bare(Foo), Bare(NameList[2])} \X (DOMAIN ArrowTokens)
                        \X {Bare(Foo), Bare(NameList[2])} : u[1] # u[3]}}

\* One declaration with a body and an alias that differs from the declared
\* name in case only.
LowerAlias == <<"a">>
AliasFiles ==
    {File(<<WithBody(t[1], t[2], LowerAlias, <<AttrLine(<<"x">>, <<"x">>)>>)>>, <<>>) :
        t \in Keywords \X {Bare(NameList[1]), Quoted(NameList[1])}}

\* A file with one comment that holds a declaration, a declaration with a
\* body or a relationship line, and no or one declaration outside it; and a
\* class with a commented line in its body.
CommentStyles == {"line_before", "line_after", "block_before", "block_same_line",
                  "block_lines", "block_apostrophe"}
CommentedText ==
    {File(<<NoBody(KW_CLASS, Bare(NameList[1]), <<>>)>>, <<>>),
     File(<<WithBody(KW_CLASS, Bare(NameList[1]), <<>>, <<AttrLine(<<"y">>, <<"y">>)>>)>>, <<>>),
     File(<<>>, <<[left |-> Bare(NameList[1]), arrow |-> 9, right |-> Bare(NameList[2])]>>)}
Uncommented ==
    {File(<<>>, <<>>),
     File(<<NoBody(KW_CLASS, Bare(NameList[2]), <<>>)>>, <<>>),
     File(<<WithBody(KW_CLASS, Bare(NameList[2]), <<>>, <<AttrLine(<<"x">>, <<"x">>)>>)>>, <<>>)}
CommentFiles ==
    {[decls |-> f.decls, rels |-> f.rels, comment |-> [style |-> st, file |-> c]] :
        f \in Uncommented, st \in CommentStyles, c \in CommentedText}
    \cup {File(<<WithBody(KW_CLASS, Bare(NameList[2]), <<>>,
                          <<AttrLine(<<"x">>, <<"x">>), OtherLine("commented", l)>>)>>, <<>>) :
            l \in {<<"'", " ", "y">>, <<"/", "*", " ", "y", " ", "*", "/">>}}

\* Two declarations: A with an alias and a body beside B with a body of its
\* own, and A with the name of the declared B as its alias.
OwnerFiles ==
    {File(<<WithBody(kw, Bare(NameList[1]), Alias, <<AttrLine(<<"x">>, <<"x">>)>>),
            WithBody(KW_CLASS, Bare(NameList[2]), <<>>, <<AttrLine(<<"y">>, <<"y">>)>>)>>, <<>>) :
        kw \in Keywords}
    \cup {File(<<WithBody(kw, Bare(NameList[1]), NameList[2], <<AttrLine(<<"x">>, <<"x">>)>>),
                 NoBody(KW_CLASS, Bare(NameList[2]), <<>>)>>, <<>>) :
            kw \in Keywords}

Files ==
    RelFiles \cup HeaderFiles \cup BodyFiles \cup DiagramFiles \cup TightFiles \cup AliasFiles
    \cup CommentFiles \cup OwnerFiles

\* Rewritings of a file.
MirrorRel(r) == [left |-> r.right, arrow |-> Mirrored[r.arrow], right |-> r.left]
Mirror(f) == [f EXCEPT !.rels = [i \in DOMAIN f.rels |-> MirrorRel(f.rels[i])]]

RequalifyName(n, q) ==
    IF n.q = <<>> THEN [n EXCEPT !.q = q] ELSE [n EXCEPT !.q = <<>>]
Requalify(f) ==
    [decls |-> [i \in DOMAIN f.decls |->
                   [f.decls[i] EXCEPT !.name = RequalifyName(f.decls[i].name, Qualifier)]],
     rels |-> [i \in DOMAIN f.rels |->
                   [f.rels[i] EXCEPT !.left = RequalifyName(f.rels[i].left, Qualifier),
                                     !.right = RequalifyName(f.rels[i].right, OtherQualifier)]]]

(***************************************************************************)
(* SpecParse: parse_plantuml_file applied to every file of Files and to a  *)
(* rewriting of it.                                                        *)
(***************************************************************************)
InitParse ==
    /\ doc \in Files
    /\ twin = doc
    /\ rewrite = "none"
    /\ models = NoCalls
    /\ MetricsIdle
    /\ NormalizeIdle
    /\ CompareIdle
    /\ TermsIdle
    /\ TableIdle

\* The second file: the same relationships with every arrow turned around
\* and its endpoints exchanged, or the same file with every bare name
\* qualified and every qualified name bare (the files that differ in their
\* bodies only, those written without blanks
\* and those with comments are not respelled).
Rewrite ==
    /\ models = NoCalls /\ rewrite = "none"
    /\ doc \notin TightFiles \cup CommentFiles
    /\ \/ /\ doc.rels # <<>>
          /\ \A i \in DOMAIN doc.rels : doc.rels[i].arrow # Undirected
          /\ rewrite' = "mirror"
          /\ twin' = Mirror(doc)
       \/ /\ doc \notin BodyFiles
          /\ rewrite' = "requalify"
          /\ twin' = Requalify(doc)
    /\ UNCHANGED <<doc, models, mref, meval, mres, nraw, nvariant, nkeys, compareVars, termsVars>>
    /\ UNCHANGED tableVars

ParseFile ==
    /\ \/ /\ DOMAIN models = {}
          /\ models' = Record(models, "doc", parse_plantuml_file(Render(doc)))
       \/ /\ DOMAIN models = {"doc"}
          /\ rewrite # "none"
          /\ models' = Record(models, "twin", parse_plantuml_file(Render(twin)))
    /\ UNCHANGED <<doc, twin, rewrite, mref, meval, mres, nraw, nvariant, nkeys, compareVars, termsVars>>
    /\ UNCHANGED tableVars

NextParse == Rewrite \/ ParseFile

SpecParse == InitParse /\ [][NextParse]_vars

(***************************************************************************)
(* compare_plantuml_models.py: compare_models                              *)
(***************************************************************************)
\* round(x, ndigits) of a float: the nearest multiple of 10^-ndigits, a tie
\* going to the even one.  (A tie needs a denominator that is a multiple of
\* 32; the quotients of set sizes met here have none.)
RECURSIVE Pow10(_)
Pow10(n) == IF n = 0 THEN 1 ELSE 10 * Pow10(n - 1)
Round(x, ndigits) ==
    LET scaled == x[1] * Pow10(ndigits)
        q == scaled \div x[2]
        r == scaled % x[2]
        up == 2 * r > x[2] \/ (2 * r = x[2] /\ q % 2 = 1)
    IN Frac(IF up THEN q + 1 ELSE q, Pow10(ndigits))

\* The characters of canonical keys, of rendered differences and of the
\* terms of the term files, in code point order.
CharOrder == <<" ", "-", ".", "0", "1", "2", "3", "4", "5", "6", "7", "8", "9", ">", "A", "B", "C", "D", "E", "F", "G", "H", "I", "J", "K", "L", "M", "N", "O", "P", "Q", "R", "S", "T", "U", "V", "W", "X", "Y", "Z", "_", "a", "b", "c", "d", "e", "f", "g", "h", "i", "j", "k", "l", "m", "n", "o", "p", "q", "r", "s", "t", "u", "v", "w", "x", "y", "z">> \o <<"U+0307">>
Ord(c) == CHOOSE i \in DOMAIN CharOrder : CharOrder[i] = c

\* a < b for two str
StrLess(a, b) ==
    \E k \in 1..Len(b) :
        /\ \A j \in 1..(k - 1) : j <= Len(a) /\ a[j] = b[j]
        /\ k > Len(a) \/ Ord(a[k]) < Ord(b[k])

\* sorted left out: the list in the order the set was iterated
Sorted_as_iterated(l) == l

\* sorted(list) of a list of str: ascending, equal items in their order
Sorted(l) ==
    LET rank(i) == Cardinality({j \in DOMAIN l :
                        StrLess(l[j], l[i]) \/ (l[j] = l[i] /\ j < i)}) + 1
    IN [r \in DOMAIN l |-> l[CHOOSE i \in DOMAIN l : rank(i) = r]]

\* The orders in which iterating a set can give its elements (the order of
\* a set of str or of tuples of str follows the hash seed of the run).
Enumerations(S) ==
    {e \in [1..Cardinality(S) -> S] : \A i, j \in DOMAIN e : i # j => e[i] # e[j]}

\* f"{s} -{t}-> {d}" and f"{c}.{a}"; different elements give different text,
\* as no key holds a space, a hyphen or a dot.
RelationshipText(r) == r[1] \o <<" ", "-">> \o r[2] \o <<"-", ">", " ">> \o r[3]
\* line 355 with the attribute shown without its entity
AttributeText_without_entity(a) == a[2]

AttributeText(a) == a[1] \o <<".">> \o a[2]

\* A Python value with its type: a str never equals a tuple.
PyStr(x) == <<"str", x>>
PyTuple(x) == <<"tuple", x>>

\* lines 304-305, the attributes left out of the union
AllElements_without_attributes(m) ==
    {PyStr(c) : c \in m.classes} \cup {PyTuple(r) : r \in m.relationships}

\* lines 304-305: classes | relationships | attributes
AllElements(m) ==
    {PyStr(c) : c \in m.classes} \cup {PyTuple(r) : r \in m.relationships}
    \cup {PyTuple(a) : a \in m.attributes}

\* lines 286-290, 310-314
Stats(m) ==
    [classes |-> Cardinality(m.classes),
     relationships |-> Cardinality(m.relationships),
     attributes |-> Cardinality(m.attributes)]

\* lines 316-347
MetricsDict(m) ==
    [precision |-> Round(m.precision, 4),
     recall |-> Round(m.recall, 4),
     f1_score |-> Round(m.f1_score, 4),
     true_positives |-> m.true_positives,
     false_positives |-> m.false_positives,
     false_negatives |-> m.false_negatives]

\* lines 349-356: the six set differences, each in an order of iteration
Iterations(reference, model) ==
    [missing_classes : Enumerations(reference.classes \ model.classes),
     extra_classes : Enumerations(model.classes \ reference.classes),
     missing_relationships : Enumerations(reference.relationships \ model.relationships),
     extra_relationships : Enumerations(model.relationships \ reference.relationships),
     missing_attributes : Enumerations(reference.attributes \ model.attributes),
     extra_attributes : Enumerations(model.attributes \ reference.attributes)]

\* lines 349-356
Differences(it) ==
    [missing_classes |-> Sorted(it.missing_classes),
     extra_classes |-> Sorted(it.extra_classes),
     missing_relationships |->
         Sorted([i \in DOMAIN it.missing_relationships |->
                    RelationshipText(it.missing_relationships[i])]),
     extra_relationships |->
         Sorted([i \in DOMAIN it.extra_relationships |->
                    RelationshipText(it.extra_relationships[i])]),
     missing_attributes |->
         Sorted([i \in DOMAIN it.missing_attributes |->
                    AttributeText(it.missing_attributes[i])]),
     extra_attributes |->
         Sorted([i \in DOMAIN it.extra_attributes |->
                    AttributeText(it.extra_attributes[i])])]

\* lines 298-357: the entry of one candidate; it holds the order in which
\* each set difference is iterated
Comparison(reference, model_path, model, it) ==
    [model_path |-> model_path,
     model_stats |-> Stats(model),
     metrics |->
         [classes |-> MetricsDict(calculate_metrics(reference.classes, model.classes)),
          relationships |->
              MetricsDict(calculate_metrics(reference.relationships, model.relationships)),
          attributes |->
              MetricsDict(calculate_metrics(reference.attributes, model.attributes)),
          overall |->
              MetricsDict(calculate_metrics(AllElements(reference), AllElements(model)))],
     differences |-> Differences(it)]

(***************************************************************************)
(* SpecCompare: compare_models on a reference file and one to              *)
(* MaxCandidates candidate files, all drawn from CompareFiles: no class or  *)
(* two classes, an attribute in one of them or a class named like the      *)
(* attribute, and up to one relationship between the two classes; two      *)
(* files of two relationship lines, the same relationship written twice    *)
(* and a relationship with its reverse; and an inheritance in its two      *)
(* directions.  A path is identified with the file it names.               *)
(***************************************************************************)
ClassA == NoBody(KW_CLASS, Bare(NameList[1]), <<>>)
ClassX == NoBody(KW_CLASS, Bare(<<"x">>), <<>>)
ClassAWithX == WithBody(KW_CLASS, Bare(NameList[1]), <<>>, <<AttrLine(<<"x">>, <<"x">>)>>)
ClassBWithX == WithBody(KW_CLASS, Bare(NameList[2]), <<>>, <<AttrLine(<<"x">>, <<"x">>)>>)
AToB(arrow) == [left |-> Bare(NameList[1]), arrow |-> arrow, right |-> Bare(NameList[2])]
BToA(arrow) == [left |-> Bare(NameList[2]), arrow |-> arrow, right |-> Bare(NameList[1])]

CompareFiles ==
    {File(ds, rs) :
        ds \in {<<>>, <<ClassA, ClassBWithX>>, <<ClassAWithX, ClassX>>},
        rs \in {<<>>, <<AToB(9)>>, <<AToB(10)>>}}
    \cup {File(<<>>, <<AToB(9), BToA(10)>>), File(<<>>, <<AToB(9), BToA(9)>>)}
    \cup {File(<<>>, <<AToB(1)>>), File(<<>>, <<AToB(2)>>)}

\* Files that differ in two elements of one kind: two attributes of the same
\* name in different classes, an attribute named like a class, a
\* relationship with its reverse, two kinds of relationship between the same
\* classes.
ListFiles ==
    {File(<<>>, <<>>),
     File(<<ClassAWithX, ClassBWithX>>, <<>>),
     File(<<ClassAWithX, ClassX>>, <<>>),
     File(<<>>, <<AToB(9), BToA(9)>>),
     File(<<>>, <<AToB(9), AToB(10)>>)}

\* The files as parse_plantuml_file reads them (lines 282 and 295).
ParsedFiles == [f \in CompareFiles \cup ListFiles |-> parse_plantuml_file(Render(f))]

InitCompare ==
    /\ reference_path \in CompareFiles
    /\ model_paths \in SeqsUpTo(CompareFiles, MaxCandidates) \ {<<>>}
    /\ reference_model = NoModel
    /\ results = NoResults
    /\ pc = "parse"
    /\ MetricsIdle
    /\ NormalizeIdle
    /\ ParseIdle
    /\ TermsIdle
    /\ TableIdle

\* lines 281-292
ParseReference ==
    /\ pc = "parse"
    /\ reference_model' = ParsedFiles[reference_path]
    /\ results' = [reference_stats |-> Stats(reference_model'), comparisons |-> <<>>]
    /\ pc' = "compare"
    /\ UNCHANGED <<reference_path, model_paths>>
    /\ UNCHANGED <<mref, meval, mres, nraw, nvariant, nkeys, doc, twin, rewrite, models, termsVars>>
    /\ UNCHANGED tableVars

\* the loop turn with state shared between candidates: the candidate's
\* elements are left in the reference model
CompareModel_sharing_state ==
    /\ pc = "compare"
    /\ Len(results.comparisons) < Len(model_paths)
    /\ LET model_path == model_paths[Len(results.comparisons) + 1]
           model == ParsedFiles[model_path]
       IN /\ \E it \in Iterations(reference_model, model) :
                 results' = [results EXCEPT !.comparisons =
                                Append(@, Comparison(reference_model, model_path, model, it))]
          /\ reference_model' =
                 [classes |-> reference_model.classes \cup model.classes,
                  relationships |-> reference_model.relationships \cup model.relationships,
                  attributes |-> reference_model.attributes \cup model.attributes]
    /\ UNCHANGED <<reference_path, model_paths, pc>>
    /\ UNCHANGED <<mref, meval, mres, nraw, nvariant, nkeys, doc, twin, rewrite, models, termsVars>>
    /\ UNCHANGED tableVars

\* lines 294-359: one turn of the loop, for the next candidate
CompareModel ==
    /\ pc = "compare"
    /\ Len(results.comparisons) < Len(model_paths)
    /\ LET model_path == model_paths[Len(results.comparisons) + 1]
           model == ParsedFiles[model_path]
       IN \E it \in Iterations(reference_model, model) :
              results' = [results EXCEPT !.comparisons =
                             Append(@, Comparison(reference_model, model_path, model, it))]
    /\ UNCHANGED <<reference_path, model_paths, reference_model, pc>>
    /\ UNCHANGED <<mref, meval, mres, nraw, nvariant, nkeys, doc, twin, rewrite, models, termsVars>>
    /\ UNCHANGED tableVars

\* line 361
Return ==
    /\ pc = "compare"
    /\ Len(results.comparisons) = Len(model_paths)
    /\ pc' = "return"
    /\ UNCHANGED <<reference_path, model_paths, reference_model, results>>
    /\ UNCHANGED <<mref, meval, mres, nraw, nvariant, nkeys, doc, twin, rewrite, models, termsVars>>
    /\ UNCHANGED tableVars

NextCompare == ParseReference \/ CompareModel \/ Return

SpecCompare == InitCompare /\ [][NextCompare]_vars

(***************************************************************************)
(* compare_terms_csv.py: extract_terms_from_csv,                           *)
(* extract_terms_with_original, compare_csv_files                          *)
(*                                                                         *)
(* A term file is given by the rows csv.reader makes of it:                *)
(*   fieldnames  None (written <<>>) for a file without any row, else      *)
(*               <<l>> with l the list of the cells of the first row       *)
(*   rows        the lists of cells of the rows after the first            *)
(* A call returns [raised, columns, terms]: raised is "" and terms the     *)
(* value returned, or raised names the exception and columns is the        *)
(* fieldnames its message shows.                                           *)
(***************************************************************************)
TERM == <<"t", "e", "r", "m">>

\* lines 95-100: the first column that is 'term' once lowercased and
\* stripped, None (<<>>) when there is none
FindTermColumn(fieldnames) ==
    IF fieldnames = <<>> \/ fieldnames[1] = <<>>
    THEN <<>>
    ELSE LET cols == fieldnames[1]
             hits == {i \in DOMAIN cols : Strip(Lower(cols[i])) = TERM}
         IN IF hits = {} THEN <<>>
            ELSE <<cols[CHOOSE i \in hits : \A j \in hits : i <= j]>>

\* csv.DictReader's row.get(term_column, ''): the dict of a row is
\* dict(zip(fieldnames, row)), a later column of the same name replacing an
\* earlier one, and every column the row is too short for is None (<<>>).
RowGet(cols, row, term_column) ==
    LET last == CHOOSE i \in DOMAIN cols :
                    /\ cols[i] = term_column
                    /\ \A j \in DOMAIN cols : cols[j] = term_column => j <= i
    IN IF last <= Len(row) THEN <<row[last]>> ELSE <<>>

\* lines 107-112 and 144-149: the loop over the rows from row i on; DictReader
\* passes over rows without cells
RECURSIVE ExtractRows(_, _, _, _, _, _)
ExtractRows(cols, term_column, rows, i, terms, as_dict) ==
    IF i > Len(rows) THEN [raised |-> "", terms |-> terms]
    ELSE IF rows[i] = <<>>
    THEN ExtractRows(cols, term_column, rows, i + 1, terms, as_dict)
    ELSE LET cell == RowGet(cols, rows[i], term_column)
         IN IF cell = <<>>
            THEN [raised |-> "AttributeError", terms |-> terms]
            ELSE LET term == Strip(cell[1])
                     normalized == normalize_term(term)
                 IN IF term # <<>> /\ normalized # <<>>
                    THEN ExtractRows(cols, term_column, rows, i + 1,
                                     IF as_dict THEN Record(terms, normalized, term)
                                     ELSE terms \cup {normalized},
                                     as_dict)
                    ELSE ExtractRows(cols, term_column, rows, i + 1, terms, as_dict)

\* lines 77-114 (as_dict FALSE) and 117-151 (as_dict TRUE)
ExtractTerms(csv, as_dict) ==
    LET term_column == FindTermColumn(csv.fieldnames)
    IN IF term_column = <<>>
       THEN [raised |-> "ValueError", columns |-> csv.fieldnames, terms |-> {}]
       ELSE LET r == ExtractRows(csv.fieldnames[1], term_column[1], csv.rows, 1,
                                 IF as_dict THEN NoCalls ELSE {}, as_dict)
            IN IF r.raised # ""
               THEN [raised |-> r.raised, columns |-> <<>>, terms |-> {}]
               ELSE [raised |-> "", columns |-> <<>>, terms |-> r.terms]

extract_terms_from_csv(csv) == ExtractTerms(csv, FALSE)
extract_terms_with_original(csv) == ExtractTerms(csv, TRUE)

\* lines 219-220, 223-243: the report of two extracted mappings; it holds the
\* order in which each of the three term sets is iterated
TermIterations(metrics) ==
    [matched_terms : Enumerations(metrics.tp_terms),
     false_positives : Enumerations(metrics.fp_terms),
     false_negatives : Enumerations(metrics.fn_terms)]

CsvReport(reference_original, model_original, metrics, it) ==
    [reference_count |-> Cardinality(DOMAIN reference_original),
     model_count |-> Cardinality(DOMAIN model_original),
     metrics |-> MetricsDict(metrics),
     details |-> [matched_terms |-> Sorted(it.matched_terms),
                  false_positives |-> Sorted(it.false_positives),
                  false_negatives |-> Sorted(it.false_negatives)]]

(***************************************************************************)
(* SpecTerms: extract_terms_from_csv on the reference file, and            *)
(* compare_csv_files on the reference and the candidate file in its three  *)
(* steps.  csv_out records the calls made:                                 *)
(*   "terms"               extract_terms_from_csv(reference_csv)           *)
(*   "reference_original"  extract_terms_with_original(reference_csv)      *)
(*   "model_original"      extract_terms_with_original(model_csv)          *)
(*   "report"              the dict compare_csv_files returns              *)
(***************************************************************************)
Csv(cols, rows) == [fieldnames |-> <<cols>>, rows |-> rows]
EmptyCsv == [fieldnames |-> <<>>, rows |-> <<>>]

Cells == {<<"A", " ", "b">>, <<"a", "_", "b">>, <<"c">>, <<"_">>, <<" ">>}
TermHeader == <<<<"T", "e", "r", "m">>>>
IdCell == <<"1">>

\* One 'Term' column and up to MaxRows rows.
TermFiles == {Csv(TermHeader, rows) : rows \in SeqsUpTo({<<c>> : c \in Cells}, MaxRows)}

\* Other headers: no file content, an empty first row, no term column, the
\* term column second, two term columns of different and of the same
\* spelling; a row without cells and a row too short for the term column.
OtherCsvFiles ==
    {EmptyCsv,
     Csv(<<>>, <<<<<<"A", " ", "b">>>>>>),
     Csv(<<<<"i", "d">>>>, <<<<IdCell>>>>),
     Csv(<<<<"t", "e", "r", "m", "s">>, <<"i", "d">>>>, <<<<<<"A", " ", "b">>, IdCell>>>>),
     Csv(<<<<"i", "d">>, <<" ", "T", "E", "R", "M", " ">>>>, <<<<IdCell, <<"A", " ", "b">>>>, <<IdCell, <<"a", "_", "b">>>>>>),
     Csv(<<<<"i", "d">>, <<" ", "T", "E", "R", "M", " ">>>>, <<<<IdCell, <<"c">>>>, <<IdCell>>>>),
     Csv(TermHeader, <<<<>>, <<<<"c">>>>>>),
     Csv(<<<<"T", "e", "r", "m">>, <<"t", "e", "r", "m">>>>, <<<<<<"A", " ", "b">>, <<"c">>>>>>),
     Csv(<<<<"t", "e", "r", "m">>, <<"t", "e", "r", "m">>>>, <<<<<<"A", " ", "b">>, <<"c">>>>>>)}

InitTerms ==
    /\ reference_csv \in TermFiles \cup OtherCsvFiles
    /\ model_csv \in TermFiles \cup OtherCsvFiles
    /\ reference_csv \in TermFiles \/ model_csv \in TermFiles
    /\ csv_out = NoCalls
    /\ MetricsIdle
    /\ NormalizeIdle
    /\ ParseIdle
    /\ CompareIdle
    /\ TableIdle

\* extract_terms_from_csv(reference_csv)
ExtractTermsFromCsv ==
    /\ DOMAIN csv_out = {}
    /\ csv_out' = Record(csv_out, "terms", extract_terms_from_csv(reference_csv))
    /\ UNCHANGED <<reference_csv, model_csv>>
    /\ UNCHANGED <<mref, meval, mres, nraw, nvariant, nkeys, parseVars, compareVars>>
    /\ UNCHANGED tableVars

\* compare_csv_files, line 217
ExtractReference ==
    /\ DOMAIN csv_out = {}
    /\ csv_out' = Record(csv_out, "reference_original",
                         extract_terms_with_original(reference_csv))
    /\ UNCHANGED <<reference_csv, model_csv>>
    /\ UNCHANGED <<mref, meval, mres, nraw, nvariant, nkeys, parseVars, compareVars>>
    /\ UNCHANGED tableVars

\* compare_csv_files, line 218
ExtractModel ==
    /\ DOMAIN csv_out = {"reference_original"}
    /\ csv_out["reference_original"].raised = ""
    /\ csv_out' = Record(csv_out, "model_original", extract_terms_with_original(model_csv))
    /\ UNCHANGED <<reference_csv, model_csv>>
    /\ UNCHANGED <<mref, meval, mres, nraw, nvariant, nkeys, parseVars, compareVars>>
    /\ UNCHANGED tableVars

\* compare_csv_files, lines 220-243
Report ==
    /\ DOMAIN csv_out = {"reference_original", "model_original"}
    /\ csv_out["model_original"].raised = ""
    /\ LET reference_original == csv_out["reference_original"].terms
           model_original == csv_out["model_original"].terms
           metrics == terms_calculate_metrics(DOMAIN reference_original,
                          DOMAIN model_original, reference_original, model_original)
       IN \E it \in TermIterations(metrics) :
              csv_out' = Record(csv_out, "report",
                             CsvReport(reference_original, model_original, metrics, it))
    /\ UNCHANGED <<reference_csv, model_csv>>
    /\ UNCHANGED <<mref, meval, mres, nraw, nvariant, nkeys, parseVars, compareVars>>
    /\ UNCHANGED tableVars

NextTerms == ExtractTermsFromCsv \/ ExtractReference \/ ExtractModel \/ Report

SpecTerms == InitTerms /\ [][NextTerms]_vars

(***************************************************************************)
(* Properties of the set comparator (SpecMetrics).                         *)
(***************************************************************************)
Called(l) == l \in DOMAIN mres
BothInputs == {e \in Elems : e \in mref /\ e \in meval}
OnlyEvaluated == {e \in Elems : e \in meval /\ e \notin mref}
OnlyReference == {e \in Elems : e \in mref /\ e \notin meval}

CountsAre(m, tp, fp, fn) ==
    m.true_positives = tp /\ m.false_positives = fp /\ m.false_negatives = fn

\* C1: in both scripts calculate_metrics returns true_positives = |reference
\* \cap candidate|, false_positives = |candidate - reference| and
\* false_negatives = |reference - candidate|.
C1_Counts ==
    \A l \in {"puml", "terms", "mapped"} :
        Called(l) => CountsAre(mres[l], Cardinality(BothInputs),
                               Cardinality(OnlyEvaluated), Cardinality(OnlyReference))

C1_Witness ==
    /\ Called("puml") /\ Called("terms")
    /\ BothInputs # {} /\ OnlyEvaluated # {}
    /\ Cardinality(OnlyEvaluated) # Cardinality(OnlyReference)

\* x is the float n / d.
IsQuotient(x, n, d) == x # Raised /\ x[1] * d = n * x[2]

\* C2: calculate_metrics never fails: precision is 0.0 when tp+fp = 0 and
\* tp/(tp+fp) otherwise, recall is 0.0 when tp+fn = 0 and tp/(tp+fn)
\* otherwise, f1 is 0.0 when precision+recall = 0 and
\* 2*precision*recall/(precision+recall) otherwise; two empty sets give
\* precision = recall = f1 = 0.0.
C2_ZeroSafe ==
    \A l \in DOMAIN mres :
        LET m == mres[l]
            tp == m.true_positives
            fp == m.false_positives
            fn == m.false_negatives
            p == m.precision
            r == m.recall
        IN /\ p # Raised /\ r # Raised /\ m.f1_score # Raised
           /\ IF tp + fp = 0 THEN p = Zero ELSE IsQuotient(p, tp, tp + fp)
           /\ IF tp + fn = 0 THEN r = Zero ELSE IsQuotient(r, tp, tp + fn)
           /\ IF p[1] * r[2] + r[1] * p[2] = 0
              THEN m.f1_score = Zero
              ELSE IsQuotient(m.f1_score, 2 * p[1] * r[1] * p[2] * r[2],
                              p[2] * r[2] * (p[1] * r[2] + r[1] * p[2]))
           /\ (mref = {} /\ meval = {}) => p = Zero /\ r = Zero /\ m.f1_score = Zero

C2_Witness ==
    /\ mref = {} /\ meval = {}
    /\ Called("puml") /\ mres["puml"].f1_score = Zero /\ mres["puml"].precision = Zero

\* C3: calculate_metrics(S, S) gives precision = recall = f1 = 1.0, fp = fn = 0
\* and tp = |S| for a non-empty S; calculate_metrics({}, {}) gives
\* precision = recall = f1 = 0.0 and tp = fp = fn = 0.
C3_Identity ==
    (Called("puml") /\ mref = meval) =>
        LET m == mres["puml"]
        IN IF mref # {}
           THEN /\ m.precision = One /\ m.recall = One /\ m.f1_score = One
                /\ CountsAre(m, Cardinality(mref), 0, 0)
           ELSE /\ m.precision = Zero /\ m.recall = Zero /\ m.f1_score = Zero
                /\ CountsAre(m, 0, 0, 0)

C3_Witness ==
    /\ Called("puml") /\ mref = meval /\ Cardinality(mref) >= 2
    /\ mres["puml"].f1_score = One

\* C4: calculate_metrics(C, R) has the true_positives of calculate_metrics(R, C),
\* its false_positives and false_negatives exchanged and its precision and
\* recall exchanged, and the same f1.
C4_Swap ==
    (Called("puml") /\ Called("swapped")) =>
        LET m == mres["puml"]
            w == mres["swapped"]
        IN /\ w.true_positives = m.true_positives
           /\ w.false_positives = m.false_negatives
           /\ w.false_negatives = m.false_positives
           /\ w.precision = m.recall
           /\ w.recall = m.precision
           /\ w.f1_score = m.f1_score

C4_Witness ==
    /\ Called("puml") /\ Called("swapped")
    /\ mres["puml"].true_positives > 0
    /\ mres["puml"].false_positives > mres["puml"].false_negatives
    /\ mres["puml"].precision # mres["puml"].recall

(***************************************************************************)
(* Properties of the normalizer (SpecNormalize).                           *)
(***************************************************************************)
Normalized(l) == l \in DOMAIN nkeys

\* C5: normalization is idempotent: normalize_identifier applied to its own
\* output returns that output, and likewise normalize_term.
C5_Idempotent ==
    /\ Normalized("again") => nkeys["again"] = nkeys["key"]
    /\ Normalized("term_again") => nkeys["term_again"] = nkeys["term"]

\* C6: two inputs that differ only by the case of letters and by inserted or
\* removed whitespace, underscores or characters that are not letters or
\* digits have equal canonical keys; a canonical key holds only lowercase
\* letters and digits; an empty or whitespace-only input gives the empty key.
C6_Insensitive ==
    /\ Normalized("variant") => nkeys["variant"] = nkeys["key"]
    /\ Normalized("key") =>
          /\ \A i \in DOMAIN nkeys["key"] : nkeys["key"][i] \in Range(LowerLetters) \cup Digits
          /\ (\A i \in DOMAIN nraw : IsSpace(nraw[i])) => nkeys["key"] = <<>>

(***************************************************************************)
(* Properties of the parser (SpecParse).                                   *)
(***************************************************************************)
Parsed(l) == l \in DOMAIN models

\* The key a name is to be stored under: the canonical key of its simple name.
SimpleKey(n) == normalize_identifier(n.base)

\* The triple a relationship line is to store: from the endpoint without the
\* arrowhead or diamond to the endpoint with it.
StoredTriple(r) ==
    IF r.arrow \in HeadOnLeft
    THEN <<SimpleKey(r.right), ArrowKind[r.arrow], SimpleKey(r.left)>>
    ELSE <<SimpleKey(r.left), ArrowKind[r.arrow], SimpleKey(r.right)>>
RawOrderTriple(r) == <<SimpleKey(r.left), ArrowKind[r.arrow], SimpleKey(r.right)>>
Triples(f) == {StoredTriple(f.rels[i]) : i \in DOMAIN f.rels}

\* C7: for every kind and every two different endpoint names, the line
\* 'X <reverse-arrow> Y' and the line 'Y <forward-arrow> X' store the same
\* triple (Y, kind, X), and a reversed arrow never stores the textual
\* left/right order.
C7_ReverseArrow ==
    (rewrite = "mirror" /\ Parsed("twin")) =>
        /\ models["doc"].relationships = models["twin"].relationships
        /\ models["doc"].relationships = Triples(doc)
        /\ \A i \in DOMAIN doc.rels :
              doc.rels[i].arrow \in HeadOnLeft =>
                  RawOrderTriple(doc.rels[i]) \notin models["doc"].relationships
        /\ \A i \in DOMAIN twin.rels :
              twin.rels[i].arrow \in HeadOnLeft =>
                  RawOrderTriple(twin.rels[i]) \notin models["twin"].relationships

C7_Witness ==
    /\ rewrite = "mirror" /\ Parsed("twin")
    /\ doc.rels # <<>> /\ doc.rels[1].arrow \in HeadOnLeft
    /\ models["doc"].relationships = {StoredTriple(doc.rels[1])}
    /\ models["twin"].relationships = {StoredTriple(doc.rels[1])}

\* C8: a declaration with a dot-qualified name stores the canonical key of
\* the final segment only, the same key as the declaration of the bare name,
\* and relationship endpoints are reduced in the same way, so the qualified
\* and the bare line store the same triple.
C8_QualifiedNames ==
    (rewrite = "requalify" /\ Parsed("twin")) =>
        /\ models["doc"].classes = models["twin"].classes
        /\ models["twin"].classes = {SimpleKey(twin.decls[i].name) : i \in DOMAIN twin.decls}
        /\ models["doc"].relationships = models["twin"].relationships
        /\ twin.decls = <<>> => models["twin"].relationships = Triples(twin)

C8_Witness ==
    /\ rewrite = "requalify" /\ Parsed("twin")
    /\ twin.decls # <<>> /\ twin.decls[1].name.q = Qualifier
    /\ twin.rels # <<>> /\ twin.rels[1].right.q = OtherQualifier
    /\ models["twin"].classes = {SimpleKey(twin.decls[i].name) : i \in DOMAIN twin.decls}
    /\ models["twin"].relationships = {StoredTriple(twin.rels[1])}

\* The attributes the bodies of a file are to contribute: one pair per
\* attribute line, under the alias of the declaration or else its simple name.
OwnerKey(d) == IF d.alias # <<>> THEN normalize_identifier(d.alias) ELSE SimpleKey(d.name)
AttributesOf(d) ==
    {<<OwnerKey(d), normalize_identifier(d.body[i].name)>> :
        i \in {j \in DOMAIN d.body : d.body[j].kind = "attribute"}}
ExpectedAttributes(f) == UNION {AttributesOf(f.decls[i]) : i \in DOMAIN f.decls}

ExcludedKinds == {"method", "stereotype", "annotation", "separator", "modifier"}
PlainBody(d) ==
    /\ d.kw # KW_ENUM
    /\ \A i \in DOMAIN d.body : d.body[i].kind \in ExcludedKinds \cup {"attribute"}

\* C9: in the body of a class, abstract class or interface, a method
\* signature, a stereotype line, an annotation line, a separator line and a
\* lone modifier keyword contribute no attribute, and every line
\* '[visibility] name [: type] [= default]' contributes exactly the pair
\* (owner key, normalize(name)).
C9_AttributeExclusion ==
    (Parsed("doc") /\ \A i \in DOMAIN doc.decls : PlainBody(doc.decls[i])) =>
        models["doc"].attributes = ExpectedAttributes(doc)

(***************************************************************************)
(* Properties of compare_models (SpecCompare).                             *)
(***************************************************************************)
Kinds == {"classes", "relationships", "attributes"}
Sum3(m, field) ==
    m["classes"][field] + m["relationships"][field] + m["attributes"][field]
Quotient(n, d) == IF d > 0 THEN Frac(n, d) ELSE Zero

\* overall precision, recall and f1 from the summed counts
MicroAverage(tp, fp, fn) ==
    LET p == Quotient(tp, tp + fp)
        r == Quotient(tp, tp + fn)
    IN [precision |-> Round(p, 4), recall |-> Round(r, 4),
        f1_score |-> Round(Quotient(2 * tp, 2 * tp + fp + fn), 4)]

\* the mean of the three per-kind values of a score
MacroAverage(m, field) ==
    FMul(Frac(1, 3),
         FAdd(m["classes"][field], FAdd(m["relationships"][field], m["attributes"][field])))

\* C10: for every reference/candidate pair the overall true_positives,
\* false_positives and false_negatives are the sums of the three per-kind
\* counts, elements of different kinds never meeting in the union, and the
\* overall precision, recall and f1 are those of the summed counts.
C10_MicroAverage ==
    \A i \in DOMAIN results.comparisons :
        LET m == results.comparisons[i].metrics
            tp == Sum3(m, "true_positives")
            fp == Sum3(m, "false_positives")
            fn == Sum3(m, "false_negatives")
            micro == MicroAverage(tp, fp, fn)
        IN /\ m["overall"].true_positives = tp
           /\ m["overall"].false_positives = fp
           /\ m["overall"].false_negatives = fn
           /\ m["overall"].precision = micro.precision
           /\ m["overall"].recall = micro.recall
           /\ m["overall"].f1_score = micro.f1_score

\* A pair with elements of all three kinds on both sides, whose overall f1
\* is not the mean of the per-kind f1 scores.
C10_Witness ==
    \E i \in DOMAIN results.comparisons :
        LET m == results.comparisons[i].metrics
        IN /\ \A k \in Kinds : m[k].true_positives + m[k].false_negatives > 0
           /\ \A k \in Kinds : m[k].true_positives + m[k].false_positives > 0
           /\ m["overall"].true_positives = Sum3(m, "true_positives")
           /\ m["overall"].false_positives > 0
           /\ m["overall"].f1_score # Round(MacroAverage(m, "f1_score"), 4)

\* The text a difference list shows for an element of a kind.
Shown(kind, e) ==
    CASE kind = "classes" -> e
      [] kind = "relationships" -> RelationshipText(e)
      [] kind = "attributes" -> AttributeText(e)

Ascending(l) == \A i, j \in DOMAIN l : i < j => StrLess(l[i], l[j])

\* The list holds the text of every element of S, once each.
ListsExactly(l, kind, S) ==
    /\ {l[i] : i \in DOMAIN l} = {Shown(kind, e) : e \in S}
    /\ Len(l) = Cardinality(S)

\* C11: for each candidate and each kind, the missing list holds exactly the
\* elements of the reference set that are not in the candidate set, the
\* extra list exactly the elements of the candidate set that are not in the
\* reference set, and each list is in ascending order of its rendered
\* strings, in whatever order the sets are iterated.
C11_Differences ==
    \A i \in DOMAIN results.comparisons :
        LET d == results.comparisons[i].differences
            r == ParsedFiles[reference_path]
            c == ParsedFiles[model_paths[i]]
        IN /\ ListsExactly(d.missing_classes, "classes", r.classes \ c.classes)
           /\ ListsExactly(d.extra_classes, "classes", c.classes \ r.classes)
           /\ ListsExactly(d.missing_relationships, "relationships",
                           r.relationships \ c.relationships)
           /\ ListsExactly(d.extra_relationships, "relationships",
                           c.relationships \ r.relationships)
           /\ ListsExactly(d.missing_attributes, "attributes", r.attributes \ c.attributes)
           /\ ListsExactly(d.extra_attributes, "attributes", c.attributes \ r.attributes)
           /\ Ascending(d.missing_classes) /\ Ascending(d.extra_classes)
           /\ Ascending(d.missing_relationships) /\ Ascending(d.extra_relationships)
           /\ Ascending(d.missing_attributes) /\ Ascending(d.extra_attributes)

\* Two relationships and two classes missing, and an extra attribute.
C11_Witness ==
    \E i \in DOMAIN results.comparisons :
        LET d == results.comparisons[i].differences
        IN /\ Len(d.missing_relationships) = 2
           /\ Ascending(d.missing_relationships)
           /\ Len(d.extra_classes) = 2
           /\ Len(d.extra_attributes) = 1

(***************************************************************************)
(* Both extractions, on inputs that include names and terms whose canonical *)
(* key is empty.                                                            *)
(***************************************************************************)
Underscore == <<"_">>
Hyphen == <<"-">>
EmptyKeyNames == {Bare(Underscore), Quoted(Underscore), Quoted(Hyphen)}

\* A declaration of a name with an empty key, with or without a body; a class
\* with an attribute line whose name has an empty key; and a relationship
\* with such a name at one end or at both.
EmptyKeyFiles ==
    {File(<<NoBody(KW_CLASS, n, <<>>)>>, <<>>) : n \in EmptyKeyNames}
    \cup {File(<<WithBody(KW_CLASS, n, <<>>, <<AttrLine(<<"x">>, <<"x">>)>>)>>, <<>>) :
            n \in EmptyKeyNames}
    \cup {File(<<WithBody(KW_CLASS, Bare(NameList[1]), <<>>, b)>>, <<>>) :
            b \in {<<AttrLine(Underscore, Underscore)>>,
                   <<AttrLine(Underscore, Underscore), AttrLine(<<"x">>, <<"x">>)>>}}
    \cup {File(<<>>, <<[left |-> t[1], arrow |-> t[2], right |-> t[3]]>>) :
            t \in {u \in (EmptyKeyNames \cup {Bare(NameList[1])}) \X {9, 10, 11}
                            \X (EmptyKeyNames \cup {Bare(NameList[1])}) :
                      u[1] \in EmptyKeyNames \/ u[3] \in EmptyKeyNames}}

InitKeys ==
    \/ /\ doc \in Files \cup EmptyKeyFiles
       /\ twin = doc
       /\ rewrite = "none"
       /\ models = NoCalls
       /\ MetricsIdle
       /\ NormalizeIdle
       /\ CompareIdle
       /\ TermsIdle
       /\ TableIdle
    \/ InitTerms

\* The two scripts are run separately: a run parses files or reads term files.
NextKeys ==
    \/ doc # NoFile /\ NextParse
    \/ doc = NoFile /\ NextTerms

SpecKeys == InitKeys /\ [][NextKeys]_vars

(***************************************************************************)
(* Properties of the term pipeline (SpecTerms).                            *)
(***************************************************************************)
Returned(l) == l \in DOMAIN csv_out /\ csv_out[l].raised = ""

\* The rows of a file that have cells, and the term the code reads in row i.
DataRows(csv) == {i \in DOMAIN csv.rows : csv.rows[i] # <<>>}
TermRead(csv, i) ==
    Strip(RowGet(csv.fieldnames[1], csv.rows[i], FindTermColumn(csv.fieldnames)[1])[1])

\* The spelling of the first row whose term has canonical key k.
FirstSpelling(csv, k) ==
    LET seen == {i \in DataRows(csv) : normalize_term(TermRead(csv, i)) = k}
    IN TermRead(csv, CHOOSE i \in seen : \A j \in seen : i <= j)

\* C12: after any sequence of rows, the spelling stored for a canonical key
\* is that of the first row whose term normalizes to the key; later rows of
\* the same key never replace it.
C12_FirstSeen ==
    Returned("reference_original") =>
        \A k \in DOMAIN csv_out["reference_original"].terms :
            csv_out["reference_original"].terms[k] = FirstSpelling(reference_csv, k)

ListedIn(l) == {l[i] : i \in DOMAIN l}

\* C13: the matched, false-positive and false-negative lists of the report
\* hold original spellings, never canonical keys, for every pair of term
\* files, also when one of the files contributes no term.
C13_OriginalSpellings ==
    "report" \in DOMAIN csv_out =>
        LET ref == csv_out["reference_original"].terms
            mod == csv_out["model_original"].terms
            d == csv_out["report"].details
        IN /\ ListedIn(d.matched_terms) = {mod[k] : k \in DOMAIN mod \cap DOMAIN ref}
           /\ ListedIn(d.false_positives) = {mod[k] : k \in DOMAIN mod \ DOMAIN ref}
           /\ ListedIn(d.false_negatives) = {ref[k] : k \in DOMAIN ref \ DOMAIN mod}

\* The columns of a header that are 'term' but for case and surrounding
\* whitespace.
TermColumns(csv) ==
    IF csv.fieldnames = <<>> THEN {}
    ELSE {i \in DOMAIN csv.fieldnames[1] : Lower(Strip(csv.fieldnames[1][i])) = TERM}
FirstTermColumn(csv) == CHOOSE i \in TermColumns(csv) : \A j \in TermColumns(csv) : i <= j

\* The canonical keys of the terms in the first term column.
KeysOfFirstTermColumn(csv) ==
    {normalize_term(Strip(csv.rows[i][FirstTermColumn(csv)])) : i \in DataRows(csv)} \ {<<>>}

\* C14: extraction fails with the error that reports the column names
\* exactly when no header column is 'term' but for case and surrounding
\* whitespace; it then returns no terms; and of several such columns the
\* first in column order is the one read.
C14_TermColumn ==
    /\ \A l \in DOMAIN csv_out \cap {"terms", "reference_original"} :
          /\ csv_out[l].raised = "ValueError" <=> TermColumns(reference_csv) = {}
          /\ csv_out[l].raised = "ValueError" =>
                csv_out[l].columns = reference_csv.fieldnames /\ csv_out[l].terms = {}
    /\ Returned("terms") => csv_out["terms"].terms = KeysOfFirstTermColumn(reference_csv)
    /\ Returned("reference_original") =>
          DOMAIN csv_out["reference_original"].terms = KeysOfFirstTermColumn(reference_csv)

\* The entry of each candidate compared alone with each reference, with the
\* sets iterated in one fixed order.
Alone ==
    [p \in CompareFiles \X CompareFiles |->
        LET reference == ParsedFiles[p[1]]
            model == ParsedFiles[p[2]]
        IN Comparison(reference, p[2], model,
                      CHOOSE it \in Iterations(reference, model) : TRUE)]

Reversed(reference, model) ==
    \E r \in reference :
        /\ r[1] # r[3]
        /\ reference = {r}
        /\ model = {<<r[3], r[2], r[1]>>}

\* C16: direction is part of a relationship's identity: a reference with one
\* relationship compared with a candidate holding only its reverse, of the
\* same kind and between different endpoints, gives relationships tp = 0,
\* fp = 1, fn = 1; and the occurrences of one triple in a document are one
\* element of its relationship set.
C16_Direction ==
    /\ \A i \in DOMAIN results.comparisons :
          Reversed(reference_model.relationships,
                   ParsedFiles[model_paths[i]].relationships) =>
              LET m == results.comparisons[i].metrics.relationships
              IN m.true_positives = 0 /\ m.false_positives = 1 /\ m.false_negatives = 1
    /\ pc # "parse" =>
          /\ Cardinality(reference_model.relationships) = Cardinality(Triples(reference_path))
          /\ results.reference_stats.relationships = Cardinality(Triples(reference_path))

\* A document that states one triple twice has been parsed as the reference
\* and compared with a candidate that holds only the reverse triple.
C16_Witness ==
    /\ pc = "return"
    /\ Len(reference_path.rels) = 2
    /\ Cardinality(reference_model.relationships) = 1
    /\ \E i \in DOMAIN model_paths :
          /\ Reversed(reference_model.relationships,
                      ParsedFiles[model_paths[i]].relationships)
          /\ results.comparisons[i].metrics.relationships.false_negatives = 1

\* C17: no empty canonical key enters a model: no parsed model has the empty
\* string among its entities, at an end of a relationship, or as the owner or
\* the name of an attribute, and no term set or mapping has the empty key;
\* a name whose key is empty is left out.
C17_NoEmptyKey ==
    /\ \A l \in DOMAIN models :
          /\ <<>> \notin models[l].classes
          /\ \A r \in models[l].relationships : r[1] # <<>> /\ r[3] # <<>>
          /\ \A a \in models[l].attributes : a[1] # <<>> /\ a[2] # <<>>
    /\ Returned("terms") => <<>> \notin csv_out["terms"].terms
    /\ \A l \in {"reference_original", "model_original"} :
          Returned(l) => <<>> \notin DOMAIN csv_out[l].terms

\* A file that declares a name with an empty key has been parsed.
EmptyNameParsed ==
    /\ Parsed("doc")
    /\ \E i \in DOMAIN doc.decls : SimpleKey(doc.decls[i].name) = <<>>

\* A file of terms with a row whose term has an empty key has been read, and
\* has given a term of another row.
EmptyTermRead ==
    /\ Returned("reference_original")
    /\ \E i \in DataRows(reference_csv) : normalize_term(TermRead(reference_csv, i)) = <<>>
    /\ DOMAIN csv_out["reference_original"].terms # {}

C17_Witness == EmptyNameParsed \/ EmptyTermRead

\* C18: a file of one relationship line 'X <arrow> Y', with a decorated arrow
\* or the plain '--', gives exactly one triple, that of the arrow's kind
\* between X and Y; the plain line is not read as a decorated arrow and a
\* decorated arrow gives no triple of the plain line or of another kind.
C18_OneTriple ==
    (Parsed("doc") /\ doc.decls = <<>> /\ Len(doc.rels) = 1) =>
        models["doc"].relationships = {StoredTriple(doc.rels[1])}

\* A body of attribute lines only.
AttributeBody(d) == \A i \in DOMAIN d.body : d.body[i].kind = "attribute"

\* C19: for each of the keywords class, abstract class, interface and enum,
\* a declaration that contributes an entity and has a body of attribute lines
\* contributes the pair (owner key, attribute key) of each of them.
C19_EveryKeyword ==
    Parsed("doc") =>
        \A i \in DOMAIN doc.decls :
            (/\ doc.decls[i].kw \in Keywords
             /\ AttributeBody(doc.decls[i])
             /\ SimpleKey(doc.decls[i].name) \in models["doc"].classes) =>
                AttributesOf(doc.decls[i]) \subseteq models["doc"].attributes

\* The attribute of the line '{static} count : int'.
COUNT == <<"c", "o", "u", "n", "t">>
PrefixedBody(d) ==
    /\ d.kw # KW_ENUM
    /\ \A i \in DOMAIN d.body : d.body[i].kind \in {"attribute", "prefixed"}
    /\ \E i \in DOMAIN d.body : d.body[i].kind = "prefixed"

\* C20: a body line '{static} count : int' contributes the attribute
\* (owner, count), and the attribute lines before and after it in the same
\* body contribute theirs.
C20_ModifierPrefix ==
    Parsed("doc") =>
        \A i \in DOMAIN doc.decls :
            PrefixedBody(doc.decls[i]) =>
                AttributesOf(doc.decls[i]) \cup {<<OwnerKey(doc.decls[i]), COUNT>>}
                    \subseteq models["doc"].attributes

AliasKey(d) == normalize_identifier(d.alias)

\* C21: for a declaration with 'as alias' the entity set receives the key of
\* the declared simple name; the alias key is an entity only when it is the
\* key of a declared name; and the attributes of the body are paired with the
\* alias key, never with the declared name's key when the two differ.
C21_AliasOwner ==
    Parsed("doc") =>
        \A i \in DOMAIN doc.decls :
            LET d == doc.decls[i]
            IN d.alias # <<>> =>
                /\ SimpleKey(d.name) \in models["doc"].classes
                /\ AliasKey(d) \in models["doc"].classes =>
                      \E j \in DOMAIN doc.decls : SimpleKey(doc.decls[j].name) = AliasKey(d)
                /\ (d.kw # KW_ENUM /\ AttributeBody(d)) =>
                      \A l \in DOMAIN d.body :
                          <<AliasKey(d), normalize_identifier(d.body[l].name)>>
                              \in models["doc"].attributes
                /\ Len(doc.decls) = 1 =>
                      \A a \in models["doc"].attributes : a[1] = AliasKey(d)

\* A class declared as A with the alias Ref and a body: a is the entity and
\* ref owns the attribute.
C21_Witness ==
    /\ Parsed("doc")
    /\ Len(doc.decls) = 1
    /\ doc.decls[1].alias # <<>>
    /\ AliasKey(doc.decls[1]) # SimpleKey(doc.decls[1].name)
    /\ models["doc"].classes = {SimpleKey(doc.decls[1].name)}
    /\ models["doc"].attributes = {<<AliasKey(doc.decls[1]), <<"x">>>>}

\* C22: comments are removed before any matching: a declaration, a
\* relationship line or an attribute line after a line-comment marker or in
\* a block comment contributes nothing, and the elements of the text outside
\* the comment are those of the file without the comment.
C22_Comments ==
    (Parsed("doc") /\ doc \in CommentFiles) =>
        /\ models["doc"].classes = {SimpleKey(doc.decls[i].name) : i \in DOMAIN doc.decls}
        /\ models["doc"].relationships = Triples(doc)
        /\ models["doc"].attributes = ExpectedAttributes(doc)

(***************************************************************************)
(* SpecSame: the two pipelines side by side.  A behaviour is a run of the  *)
(* two normalizers on one raw string, a run of the two calculate_metrics   *)
(* on one pair of sets, or compare_csv_files on two term files, among them *)
(* a reference file with the terms 'API Gateway' and 'Load Balancer' and a *)
(* candidate file with the terms 'api_gateway' and 'Cache'.                *)
(***************************************************************************)
ExampleReference ==
    Csv(TermHeader, <<<<<<"A", "P", "I", " ", "G", "a", "t", "e", "w", "a", "y">>>>,
                      <<<<"L", "o", "a", "d", " ", "B", "a", "l", "a", "n", "c", "e", "r">>>>>>)
ExampleCandidate ==
    Csv(TermHeader, <<<<<<"a", "p", "i", "_", "g", "a", "t", "e", "w", "a", "y">>>>,
                      <<<<"C", "a", "c", "h", "e">>>>>>)

InitSame ==
    \/ InitNormalize
    \/ InitMetrics
    \/ InitTerms
    \/ /\ reference_csv = ExampleReference
       /\ model_csv = ExampleCandidate
       /\ csv_out = NoCalls
       /\ MetricsIdle
       /\ NormalizeIdle
       /\ ParseIdle
       /\ CompareIdle
       /\ TableIdle

NextSame ==
    \/ MetricsIdle /\ TermsIdle /\ NextNormalize
    \/ NormalizeIdle /\ TermsIdle /\ NextMetrics
    \/ ~TermsIdle /\ NextTerms

SpecSame == InitSame /\ [][NextSame]_vars

MetricFields == {"true_positives", "false_positives", "false_negatives",
                 "precision", "recall", "f1_score"}
Half == <<1, 2>>
ExampleRun == reference_csv = ExampleReference /\ model_csv = ExampleCandidate

\* C23: the term pipeline is the diagram pipeline.  normalize_term returns
\* the key normalize_identifier returns for the same string; on the same
\* pair of sets the calculate_metrics of compare_terms_csv.py, with or
\* without the dicts of original spellings, returns the tp, fp, fn,
\* precision, recall and f1 the calculate_metrics of
\* compare_plantuml_models.py returns; and the reference terms
\* 'API Gateway', 'Load Balancer' against the candidate terms 'api_gateway',
\* 'Cache' are reported with tp = fp = fn = 1 and precision = recall = f1 =
\* 0.5.
C23_SamePipeline ==
    /\ (Normalized("key") /\ Normalized("term")) => nkeys["term"] = nkeys["key"]
    /\ \A l \in {"terms", "mapped"} :
           (Called("puml") /\ Called(l)) =>
               \A field \in MetricFields : mres[l][field] = mres["puml"][field]
    /\ (ExampleRun /\ "report" \in DOMAIN csv_out) =>
           /\ csv_out["report"].metrics.true_positives = 1
           /\ csv_out["report"].metrics.false_positives = 1
           /\ csv_out["report"].metrics.false_negatives = 1
           /\ csv_out["report"].metrics.precision = Half
           /\ csv_out["report"].metrics.recall = Half
           /\ csv_out["report"].metrics.f1_score = Half

\* The example of C23 has been compared; a string with an underscore has
\* gone through both normalizers; a pair of overlapping, different sets has
\* gone through both calculate_metrics.
C23_ExampleReported == ExampleRun /\ "report" \in DOMAIN csv_out
C23_UnderscoreNormalized ==
    /\ Normalized("key") /\ Normalized("term")
    /\ \E i \in DOMAIN nraw : nraw[i] = "_"
    /\ nkeys["key"] # <<>>
C23_SetsScored ==
    /\ Called("puml") /\ Called("terms") /\ Called("mapped")
    /\ mref \cap meval # {} /\ mref \ meval # {} /\ meval \ mref # {}
C23_Witness == C23_ExampleReported

FileOf(l) == IF l = "doc" THEN doc ELSE twin
AliasKeys(f) == {AliasKey(f.decls[i]) : i \in {j \in DOMAIN f.decls : f.decls[j].alias # <<>>}}

InitLists ==
    \/ /\ reference_path \in ListFiles
       /\ model_paths \in SeqsUpTo(ListFiles, MaxCandidates) \ {<<>>}
       /\ reference_model = NoModel
       /\ results = NoResults
       /\ pc = "parse"
       /\ MetricsIdle
       /\ NormalizeIdle
       /\ ParseIdle
       /\ TermsIdle
       /\ TableIdle
    \/ InitTerms

NextLists ==
    \/ TermsIdle /\ NextCompare
    \/ ~TermsIdle /\ NextTerms

SpecLists == InitLists /\ [][NextLists]_vars

NoDuplicates(l) == \A i, j \in DOMAIN l : l[i] = l[j] => i = j

\* C25: the itemized differences agree with the counts.  For every candidate
\* and each kind the 'missing' list is as long as the kind's false_negatives
\* and the 'extra' list as long as its false_positives, and no list holds a
\* string twice: two different triples or pairs are never shown as the same
\* 'source -kind-> target' or 'entity.attribute'.  In the report of
\* compare_csv_files matched_terms, false_positives and false_negatives are
\* as long as true_positives, false_positives and false_negatives say, and
\* hold no term twice.
C25_ListsAgree ==
    /\ \A i \in DOMAIN results.comparisons :
           LET d == results.comparisons[i].differences
               m == results.comparisons[i].metrics
           IN /\ Len(d.missing_classes) = m.classes.false_negatives
              /\ Len(d.extra_classes) = m.classes.false_positives
              /\ Len(d.missing_relationships) = m.relationships.false_negatives
              /\ Len(d.extra_relationships) = m.relationships.false_positives
              /\ Len(d.missing_attributes) = m.attributes.false_negatives
              /\ Len(d.extra_attributes) = m.attributes.false_positives
              /\ NoDuplicates(d.missing_classes) /\ NoDuplicates(d.extra_classes)
              /\ NoDuplicates(d.missing_relationships) /\ NoDuplicates(d.extra_relationships)
              /\ NoDuplicates(d.missing_attributes) /\ NoDuplicates(d.extra_attributes)
    /\ "report" \in DOMAIN csv_out =>
           LET d == csv_out["report"].details
               m == csv_out["report"].metrics
           IN /\ Len(d.matched_terms) = m.true_positives
              /\ Len(d.false_positives) = m.false_positives
              /\ Len(d.false_negatives) = m.false_negatives
              /\ NoDuplicates(d.matched_terms)
              /\ NoDuplicates(d.false_positives)
              /\ NoDuplicates(d.false_negatives)

\* Two attributes x of different classes are missing and two kinds of
\* relationship between the same classes are extra.
C25_Witness ==
    \E i, j \in DOMAIN results.comparisons :
        /\ Len(results.comparisons[i].differences.missing_attributes) = 2
        /\ Len(results.comparisons[j].differences.extra_relationships) = 2
\* Two terms of the candidate file are false positives.
C25_TermsWitness ==
    /\ "report" \in DOMAIN csv_out
    /\ Len(csv_out["report"].details.false_positives) = 2

(***************************************************************************)
(* generate_terms_comparison_table.py: compute_mean_metrics,               *)
(* generate_markdown_table                                                 *)
(*                                                                         *)
(* The directory data/ is given by the term files it holds:                *)
(*   baseline  file name -> term file, for the files of manual_baseline/   *)
(*   runs      the directories llm-mas/run_*, sorted by name as line 60    *)
(*             sorts them, each a function file name -> term file; the     *)
(*             name of a run is its position in this order                 *)
(* A printed cell is the string printed.  The means are kept as            *)
(* compute_mean_metrics returns them, before they are formatted.           *)
(***************************************************************************)
TERMS_CSV == "terms.csv"
SCORED_TERMS_CSV == "scored_terms.csv"
NOT_AVAILABLE == <<"N", "/", "A">>

\* compare_terms_csv.py lines 225-251, for the metrics of line 225.  The
\* lists of the report are sorted, so the order in which the sets are
\* iterated does not show in it.
ReportOf(reference_original, model_original, metrics) ==
    [raised |-> "",
     report |-> CsvReport(reference_original, model_original, metrics,
                          CHOOSE it \in TermIterations(metrics) : TRUE)]

\* lines 220-230, for what the two calls of lines 217 and 218 returned
CompareOriginals(reference_original, model_original) ==
    IF reference_original.raised # ""
    THEN [raised |-> reference_original.raised, report |-> NoCalls]
    ELSE IF model_original.raised # ""
    THEN [raised |-> model_original.raised, report |-> NoCalls]
    ELSE ReportOf(reference_original.terms, model_original.terms,
                  terms_calculate_metrics(DOMAIN reference_original.terms,
                      DOMAIN model_original.terms,
                      reference_original.terms, model_original.terms))

\* compare_terms_csv.py lines 204-251
compare_csv_files(reference_file, model_file) ==
    CompareOriginals(extract_terms_with_original(reference_file),
                     extract_terms_with_original(model_file))

\* sum(...) over a list of floats
RECURSIVE FSum(_)
FSum(l) == IF l = <<>> THEN Zero ELSE FAdd(Head(l), FSum(Tail(l)))

\* lines 21-41; the counts are ints, summed and divided like the floats
compute_mean_metrics(comparisons) ==
    IF comparisons = <<>> THEN NoCalls
    ELSE LET n == <<Len(comparisons), 1>>
             float(k, x) == IF k \in {"precision", "recall", "f1_score"} THEN x ELSE <<x, 1>>
         IN [k \in {"precision", "recall", "f1_score",
                    "true_positives", "false_positives", "false_negatives"} |->
                FDiv(FSum([i \in DOMAIN comparisons |->
                              float(k, comparisons[i].metrics[k])]), n)]

\* format(x, '.4f') of a float below 10 that round(x, 4) returned
DigitChars == <<"0", "1", "2", "3", "4", "5", "6", "7", "8", "9">>
Fixed4(x) ==
    LET units == x[1] * (Pow10(4) \div x[2])
        digit(p) == DigitChars[((units \div Pow10(p)) % 10) + 1]
    IN <<digit(4), ".", digit(3), digit(2), digit(1), digit(0)>>

\* lines 79-80 and 89-90: a comparison with the name of its run
Entry(run_name, result) ==
    [run_name |-> run_name,
     model_count |-> result.report.model_count,
     metrics |-> result.report.metrics]

\* A file that is not there is not compared.
NotCompared == [raised |-> "", report |-> NoCalls]

\* lines 70-93: the loop over the run directories from run i on, with the
\* two lists and the warnings it has made so far; LoopTurn is the turn for
\* run i, given the results of its two comparisons
RECURSIVE CollectComparisons(_, _, _, _, _, _)
LoopTurn(baseline, runs, i, terms_comparisons, scored_terms_comparisons, warnings, terms_result, scored_result) ==
    LET run_name == i
        has_terms == TERMS_CSV \in DOMAIN runs[i]
        has_scored == SCORED_TERMS_CSV \in DOMAIN runs[i]
        stopped(tc, w, raised) ==
            [raised |-> raised, terms_comparisons |-> tc,
             scored_terms_comparisons |-> scored_terms_comparisons, warnings |-> w]
    IN IF terms_result.raised # ""
       THEN stopped(terms_comparisons, warnings, terms_result.raised)
       ELSE IF scored_result.raised # ""
       THEN stopped(IF has_terms THEN Append(terms_comparisons, Entry(run_name, terms_result))
                    ELSE terms_comparisons,
                    IF has_terms THEN warnings
                    ELSE Append(warnings, <<run_name, TERMS_CSV>>),
                    scored_result.raised)
       ELSE CollectComparisons(baseline, runs, i + 1,
                IF has_terms THEN Append(terms_comparisons, Entry(run_name, terms_result))
                ELSE terms_comparisons,
                IF has_scored
                THEN Append(scored_terms_comparisons, Entry(run_name, scored_result))
                ELSE scored_terms_comparisons,
                (IF has_terms THEN warnings ELSE Append(warnings, <<run_name, TERMS_CSV>>))
                    \o (IF has_scored THEN <<>> ELSE <<<<run_name, SCORED_TERMS_CSV>>>>))

CollectComparisons(baseline, runs, i, terms_comparisons, scored_terms_comparisons, warnings) ==
    IF i > Len(runs)
    THEN [raised |-> "", terms_comparisons |-> terms_comparisons,
          scored_terms_comparisons |-> scored_terms_comparisons, warnings |-> warnings]
    ELSE LoopTurn(baseline, runs, i, terms_comparisons, scored_terms_comparisons, warnings,
                  IF TERMS_CSV \in DOMAIN runs[i]
                  THEN compare_csv_files(baseline[TERMS_CSV], runs[i][TERMS_CSV])
                  ELSE NotCompared,
                  IF SCORED_TERMS_CSV \in DOMAIN runs[i]
                  THEN compare_csv_files(baseline[SCORED_TERMS_CSV], runs[i][SCORED_TERMS_CSV])
                  ELSE NotCompared)

\* lines 106-114: the mean of model_count over a list of comparisons, or 0
AverageModelCount(comparisons) ==
    IF comparisons # <<>>
    THEN FDiv(FSum([i \in DOMAIN comparisons |-> <<comparisons[i].model_count, 1>>]),
              <<Len(comparisons), 1>>)
    ELSE Zero

\* lines 121-123 and 133-135: the rows of one of the two metrics tables
MetricsRows(comparisons) ==
    [i \in DOMAIN comparisons |->
        LET comp == comparisons[i]
            m == comp.metrics
        IN <<comp.run_name, Fixed4(m.precision), Fixed4(m.recall), Fixed4(m.f1_score),
             m.true_positives, m.false_positives, m.false_negatives, comp.model_count>>]

\* lines 148-156: the rows of the summary table
SummaryRows(terms_comparisons, scored_terms_comparisons) ==
    [i \in DOMAIN terms_comparisons |->
        LET run_name == terms_comparisons[i].run_name
            terms_f1 == terms_comparisons[i].metrics.f1_score
        IN IF i <= Len(scored_terms_comparisons)
           THEN <<run_name, Fixed4(terms_f1),
                  Fixed4(scored_terms_comparisons[i].metrics.f1_score)>>
           ELSE <<run_name, Fixed4(terms_f1), NOT_AVAILABLE>>]

\* lines 44-68: nothing is compared when a baseline file is missing
NothingPrinted ==
    [returned |-> 1, raised |-> "", warnings |-> <<>>,
     reference_counts |-> <<>>, averages |-> <<>>, terms_rows |-> <<>>,
     terms_mean |-> NoCalls, scored_rows |-> <<>>, scored_mean |-> NoCalls,
     summary_rows |-> <<>>, summary_mean |-> <<>>]

\* lines 95-163, for the comparisons c of the loop and the two comparisons
\* of the baseline files with themselves
Tables(c, ref_terms_result, ref_scored_result) ==
    IF c.raised # "" \/ ref_terms_result.raised # "" \/ ref_scored_result.raised # ""
    THEN [NothingPrinted EXCEPT
             !.returned = -1,
             !.raised = IF c.raised # "" THEN c.raised
                        ELSE IF ref_terms_result.raised # "" THEN ref_terms_result.raised
                        ELSE ref_scored_result.raised,
             !.warnings = c.warnings]
    ELSE [returned |-> 0, raised |-> "", warnings |-> c.warnings,
          reference_counts |-> <<ref_terms_result.report.reference_count,
                                 ref_scored_result.report.reference_count>>,
          averages |-> <<AverageModelCount(c.terms_comparisons),
                         AverageModelCount(c.scored_terms_comparisons)>>,
          terms_rows |-> MetricsRows(c.terms_comparisons),
          terms_mean |-> compute_mean_metrics(c.terms_comparisons),
          scored_rows |-> MetricsRows(c.scored_terms_comparisons),
          scored_mean |-> compute_mean_metrics(c.scored_terms_comparisons),
          summary_rows |-> SummaryRows(c.terms_comparisons, c.scored_terms_comparisons),
          summary_mean |->
              IF c.terms_comparisons # <<>> /\ c.scored_terms_comparisons # <<>>
              THEN <<compute_mean_metrics(c.terms_comparisons)["f1_score"],
                     compute_mean_metrics(c.scored_terms_comparisons)["f1_score"]>>
              ELSE <<>>]

\* lines 44-163.  The result holds the value returned (-1 with the
\* exception raised), the warnings, and the rows printed.
generate_markdown_table(data) ==
    IF TERMS_CSV \notin DOMAIN data.baseline \/ SCORED_TERMS_CSV \notin DOMAIN data.baseline
    THEN NothingPrinted
    ELSE Tables(CollectComparisons(data.baseline, data.runs, 1, <<>>, <<>>, <<>>),
                compare_csv_files(data.baseline[TERMS_CSV], data.baseline[TERMS_CSV]),
                compare_csv_files(data.baseline[SCORED_TERMS_CSV],
                                  data.baseline[SCORED_TERMS_CSV]))

(***************************************************************************)
(* SpecTable: generate_markdown_table on a data directory with the two     *)
(* baseline files, each present or absent, and up to MaxRuns run           *)
(* directories, each with or without terms.csv and scored_terms.csv.       *)
(***************************************************************************)
SCORE == <<"s", "c", "o", "r", "e">>
BaselineTerms == Csv(TermHeader, <<<<<<"A", " ", "b">>>>, <<<<"c">>>>>>)
BaselineScored == Csv(<<TERM, SCORE>>, <<<<<<"A", " ", "b">>, IdCell>>, <<<<"c">>, IdCell>>>>)
RunTerms == {BaselineTerms, Csv(TermHeader, <<<<<<"c">>>>>>)}
RunScored ==
    {Csv(<<TERM, SCORE>>, <<<<<<"c">>, IdCell>>, <<<<"d">>, IdCell>>>>),
     Csv(<<TERM, SCORE>>, <<<<<<"d">>, IdCell>>>>),
     Csv(<<SCORE>>, <<<<IdCell>>>>)}

Directory(terms, scored) ==
    [n \in (IF terms = NoCsv THEN {} ELSE {TERMS_CSV})
           \cup (IF scored = NoCsv THEN {} ELSE {SCORED_TERMS_CSV}) |->
        IF n = TERMS_CSV THEN terms ELSE scored]

RunDirectories == {Directory(t, s) : t \in RunTerms \cup {NoCsv}, s \in RunScored \cup {NoCsv}}
BaselineDirectories ==
    {Directory(t, s) : t \in {BaselineTerms, NoCsv}, s \in {BaselineScored, NoCsv}}

InitTable ==
    /\ data_dir \in [baseline : BaselineDirectories,
                     runs : SeqsUpTo(RunDirectories, MaxRuns)]
    /\ table = NoCalls
    /\ MetricsIdle
    /\ NormalizeIdle
    /\ ParseIdle
    /\ CompareIdle
    /\ TermsIdle

GenerateMarkdownTable ==
    /\ table = NoCalls
    /\ table' = generate_markdown_table(data_dir)
    /\ UNCHANGED <<data_dir, mref, meval, mres, nraw, nvariant, nkeys, parseVars,
                   compareVars, termsVars>>

NextTable == GenerateMarkdownTable

SpecTable == InitTable /\ [][NextTable]_vars

Printed == table # NoCalls /\ table.returned = 0
ScoredOf(run_name) ==
    compare_csv_files(data_dir.baseline[SCORED_TERMS_CSV],
                      data_dir.runs[run_name][SCORED_TERMS_CSV]).report.metrics.f1_score

\* C26: each row of the summary table pairs results of the same run: the
\* scored_terms F1 on a row is the F1 of the scored_terms.csv of the run the
\* row names, and the row shows N/A exactly when that run has no
\* scored_terms.csv.
C26_SameRun ==
    Printed =>
        \A i \in DOMAIN table.summary_rows :
            LET row == table.summary_rows[i]
            IN IF SCORED_TERMS_CSV \in DOMAIN data_dir.runs[row[1]]
               THEN row[3] = Fixed4(ScoredOf(row[1]))
               ELSE row[3] = NOT_AVAILABLE

====
